---- MODULE Spec2Model ----
(***************************************************************************)
(* Verification model of mp3tolight (audio-3d-visualizer).                 *)
(*                                                                         *)
(* Part 1: the analysis cache of hooks/useAudioAnalysis.js together with   *)
(*         the two handlers of components/Audio3DVisualizer.jsx that call  *)
(*         it (specification Spec).                                        *)
(* Part 2: the framing loop of the analyzers (specification SpecFraming).  *)
(* Part 3: beat picking of audio/beatAnalysis.js and audio/tempoAnalysis.js*)
(*         (specification SpecBeats).                                      *)
(* Part 4: calculateTempo of audio/beatAnalysis.js (SpecTempo).            *)
(* Part 5: the FFT constructor of utils/audioUtils.js (SpecFFT).           *)
(* Part 6: FFT.forward and getMagnitudeSpectrum (SpecForward).             *)
(* Part 7: one pass of each analyzer over a buffer (SpecPass).             *)
(* Part 8: analyzeBasic on concrete samples (SpecBasic).                   *)
(* Part 9: calculateChromaFromFFT (SpecChroma).                            *)
(* Part 10: the tempo histogram of audio/tempoAnalysis.js (SpecHistogram). *)
(* Part 11: exportSTL of utils/stlExporter.js (SpecSTL).                   *)
(* Part 12: the mesh builders and validateMeshData (SpecMesh).             *)
(* Part 13: detectSilence of audio/basicAnalysis.js (SpecSilence).         *)
(* Part 14: the frame loop of audio/spectralAnalysis.js (SpecSpectral).    *)
(* Part 15: calculateSpectralStatistics and detectSpectralEvents           *)
(*          (SpecStatistics).                                              *)
(* Part 16: updateMesh of components/TabNavigation.jsx (SpecScene).        *)
(***************************************************************************)
EXTENDS Integers, Sequences, FiniteSets, TLC

VARIABLES
    analysisData,   \* useState of useAudioAnalysis: tabId -> record
    audioBuffer,    \* useState of useAudioAnalysis: loaded buffer, 0 = null
    activeTab,      \* useState of Audio3DVisualizer
    isProcessing,   \* useState of Audio3DVisualizer
    calls,          \* handler invocations / analyzeForTab calls and their position
    nbuf,           \* number of AudioBuffer objects decoded so far
    last,           \* history: the most recently completed analyzeForTab call
    fr,             \* framing loop state (Part 2)
    bd,             \* beat picking state (Part 3)
    tp,             \* calculateTempo state (Part 4)
    fft,            \* FFT constructor state (Part 5)
    fw,             \* FFT.forward run (Part 6)
    ps,             \* analyzer pass over a buffer (Part 7)
    ba,             \* analyzeBasic run on concrete samples (Part 8)
    ch,             \* calculateChromaFromFFT run (Part 9)
    th,             \* calculateTempoAnalysis run (Part 10)
    stl,            \* exportSTL run (Part 11)
    msh,            \* mesh builder / validateMeshData run (Part 12)
    sil,            \* detectSilence run (Part 13)
    sf,             \* analyzeSpectral frame loop (Part 14)
    st,             \* spectral statistics and events (Part 15)
    sc              \* ThreeJSViewer scene and updateMesh calls (Part 16)

vars == <<analysisData, audioBuffer, activeTab, isProcessing, calls, nbuf,
          last, fr, bd, tp, fft, fw, ps, ba, ch, th, stl, msh, sil, sf, st, sc>>

orchVars == <<analysisData, audioBuffer, activeTab, isProcessing, calls, nbuf,
              last>>

\* The state of Parts 6 to 13, idle in Parts 1 to 5.
kernelVars == <<fw, ps, ba, ch, th, stl, msh, sil>>

IdleKernels == /\ fw = 0
               /\ ps = 0
               /\ ba = 0
               /\ ch = 0
               /\ th = 0
               /\ stl = 0
               /\ msh = 0
               /\ sil = 0

\* The state of Parts 14 to 16, idle in Parts 1 to 13.
lateVars == <<sf, st, sc>>

IdleLate == /\ sf = 0
            /\ st = 0
            /\ sc = 0

(***************************************************************************)
(* Bounds                                                                  *)
(***************************************************************************)
MaxCalls == 2       \* handler invocations that reach analyzeForTab or a load
MaxBuffers == 2     \* files decoded

(***************************************************************************)
(* Part 1: useAudioAnalysis + Audio3DVisualizer handlers                   *)
(***************************************************************************)

\* The tab ids of Audio3DVisualizer (tabs array).
Kinds == {"basic", "spectrogram", "chroma", "beats", "frequency", "spectral", "tempo"}

\* The keys of the object literal passed to useState / set by clearAnalysisData.
InitialKeys == {"basic", "chroma", "beats", "frequency", "spectral", "tempo"}

\* The tab ids the handlers are driven with: one per code path of
\* loadAnalysisModule and of the initial object literal ("beats" stands for
\* the four commented-out cases, "spectrogram" has no initial key).
TabsTried == {"basic", "chroma", "beats", "spectrogram"}

NoBuffer == 0

NullRec == [type |-> "null", buf |-> 0]
UndefinedRec == [type |-> "undefined", buf |-> 0]

\* JavaScript truthiness of a cache entry or of a buffer reference.
Truthy(r) == r.type \notin {"null", "undefined"}

\* The object literal of useState / clearAnalysisData; reading a key that
\* is not in it yields undefined.
EmptyAnalysisData ==
    [k \in Kinds |-> IF k \in InitialKeys THEN NullRec ELSE UndefinedRec]

\* loadAnalysisModule: the analyzer function a tab id resolves to.
loadAnalysisModule(tabId) ==
    CASE tabId = "basic" -> "analyzeBasic"
      [] tabId = "chroma" -> "analyzeChroma"
      [] OTHER -> "analyzeBasic"

\* The type tag each analyzer puts in its result record.
AnalyzerType(fn) ==
    CASE fn = "analyzeBasic" -> "basic"
      [] fn = "analyzeChroma" -> "chroma"
      [] fn = "analyzeBeats" -> "beats"
      [] fn = "analyzeFrequency" -> "frequency"
      [] fn = "analyzeSpectral" -> "spectral"
      [] fn = "analyzeTempo" -> "tempo"
      [] OTHER -> "spectrogram"

\* The record an analyzer returns for a buffer.
AnalyzerResult(fn, buffer) == [type |-> AnalyzerType(fn), buf |-> buffer]

Outcomes == {"ok", "importFails", "analyzerThrows"}

\* try/catch block of analyzeForTab: what the call returns, whether an
\* exception leaves the function, and what is written to the cache.
TryAnalyze_NoCatch(tabId, buffer, outcome) ==
    IF outcome = "ok"
    THEN [ret |-> AnalyzerResult(loadAnalysisModule(tabId), buffer),
          threw |-> FALSE, store |-> TRUE,
          value |-> AnalyzerResult(loadAnalysisModule(tabId), buffer)]
    ELSE [ret |-> UndefinedRec, threw |-> TRUE, store |-> FALSE, value |-> NullRec]

TryAnalyze_StoreNull(tabId, buffer, outcome) ==
    IF outcome = "ok"
    THEN [ret |-> AnalyzerResult(loadAnalysisModule(tabId), buffer),
          threw |-> FALSE, store |-> TRUE,
          value |-> AnalyzerResult(loadAnalysisModule(tabId), buffer)]
    ELSE [ret |-> NullRec, threw |-> FALSE, store |-> TRUE, value |-> NullRec]

TryAnalyze(tabId, buffer, outcome) ==
    IF outcome = "ok"
    THEN [ret |-> AnalyzerResult(loadAnalysisModule(tabId), buffer),
          threw |-> FALSE, store |-> TRUE,
          value |-> AnalyzerResult(loadAnalysisModule(tabId), buffer)]
    ELSE [ret |-> NullRec, threw |-> FALSE, store |-> FALSE, value |-> NullRec]

\* Whether the analyzer function itself was invoked (line 65 reached).
AnalyzerRan(outcome) == outcome \in {"ok", "analyzerThrows"}

\* A call slot: a handler invocation and the analyzeForTab call it makes.
IdleCall ==
    [op |-> "none", pc |-> "idle", tabId |-> "none", buffer |-> 0,
     closure |-> EmptyAnalysisData, seq |-> FALSE, seqRet |-> NullRec,
     overlapRan |-> FALSE]

\* A slot whose handler has returned.
DoneCall == [IdleCall EXCEPT !.pc = "done"]

\* The record kept of a completed analyzeForTab call.
NoReturn ==
    [op |-> "none", tabId |-> "none", buffer |-> 0, outcome |-> "none",
     ret |-> NullRec, threw |-> FALSE, ran |-> FALSE, hit |-> FALSE,
     seq |-> FALSE, seqRet |-> NullRec, overlapRan |-> FALSE]

CallIds == 1..MaxCalls

\* Call slots are handed out in order.
NextSlot(p) ==
    /\ calls[p].pc = "idle"
    /\ \A q \in CallIds : q < p => calls[q].pc # "idle"

\* "This call is the second of two calls in sequence for the same buffer
\* and kind, the first of which computed and returned a record."
InSequence(tabId, buffer) ==
    /\ last.tabId = tabId
    /\ last.buffer = buffer
    /\ last.ran
    /\ Truthy(last.ret)

CacheHit_Never(data, tabId) == FALSE

\* Cache lookup of analyzeForTab (lines 51-54) against the analysisData
\* its closure holds.
CacheHit(data, tabId) == Truthy(data[tabId])

\* Synchronous part of analyzeForTab(tabId, buffer) for a truthy buffer, up
\* to its first await, run by call p with the analysisData of its closure;
\* finishing is TRUE when the caller sets isProcessing to false after it.
AnalyzeForTabSync(p, op, tabId, buffer, data, finishing) ==
    /\ audioBuffer' = buffer
    /\ IF CacheHit(data, tabId)
       THEN /\ calls' = [calls EXCEPT ![p] = DoneCall]
            /\ last' = [NoReturn EXCEPT !.op = op, !.tabId = tabId,
                                        !.buffer = buffer, !.outcome = "hit",
                                        !.ret = data[tabId], !.hit = TRUE,
                                        !.seq = InSequence(tabId, buffer),
                                        !.seqRet = IF InSequence(tabId, buffer) THEN last.ret ELSE NullRec]
            /\ isProcessing' = IF finishing THEN FALSE ELSE isProcessing
       ELSE /\ calls' = [calls EXCEPT ![p] =
                   [IdleCall EXCEPT !.op = op, !.pc = "module", !.tabId = tabId,
                                    !.buffer = buffer,
                                    !.seq = InSequence(tabId, buffer),
                                    !.seqRet = IF InSequence(tabId, buffer) THEN last.ret ELSE NullRec]]
            /\ last' = last
            /\ isProcessing' = IF op = "direct" THEN isProcessing ELSE TRUE

\* handleFileUpload up to `await loadAudioBuffer(file)`.
HandleFileUpload(p) ==
    /\ NextSlot(p)
    /\ isProcessing' = TRUE
    /\ calls' = [calls EXCEPT ![p] =
            [IdleCall EXCEPT !.op = "upload", !.pc = "load", !.tabId = activeTab,
                             !.closure = analysisData]]
    /\ UNCHANGED <<analysisData, audioBuffer, activeTab, nbuf, last>>

\* loadAudioBuffer resolved with a decoded buffer: setAudioBuffer(buffer),
\* then analyzeForTab(activeTab, buffer) of the handler's closure.
LoadAudioBufferOk(p) ==
    /\ calls[p].pc = "load"
    /\ nbuf < MaxBuffers
    /\ nbuf' = nbuf + 1
    /\ AnalyzeForTabSync(p, "upload", calls[p].tabId, nbuf + 1,
                         calls[p].closure, TRUE)
    /\ UNCHANGED <<analysisData, activeTab>>

\* loadAudioBuffer caught a decode error and resolved with null.
LoadAudioBufferNull(p) ==
    /\ calls[p].pc = "load"
    /\ calls' = [calls EXCEPT ![p] = DoneCall]
    /\ isProcessing' = FALSE
    /\ UNCHANGED <<analysisData, audioBuffer, activeTab, nbuf, last>>

\* handleTabChange(tabId) up to `await analyzeForTab(...)`.
HandleTabChange(p, tabId) ==
    /\ activeTab' = tabId
    /\ IF audioBuffer # NoBuffer /\ ~Truthy(analysisData[tabId])
       THEN /\ NextSlot(p)
            /\ AnalyzeForTabSync(p, "tab", tabId, audioBuffer, analysisData, FALSE)
       ELSE /\ p = 1
            /\ UNCHANGED <<audioBuffer, isProcessing, calls, last>>
    /\ UNCHANGED <<analysisData, nbuf>>

AnalyzeForTab_NoGuard(p, tabId, buffer) ==
    /\ NextSlot(p)
    /\ AnalyzeForTabSync(p, "direct", tabId, buffer, analysisData, FALSE)
    /\ UNCHANGED <<analysisData, activeTab, nbuf>>

\* analyzeForTab(tabId, buffer) called on the hook directly.
AnalyzeForTab(p, tabId, buffer) ==
    /\ NextSlot(p)
    /\ IF buffer = NoBuffer
       THEN /\ calls' = [calls EXCEPT ![p] = DoneCall]
            /\ last' = [NoReturn EXCEPT !.op = "direct", !.tabId = tabId,
                                        !.outcome = "nobuffer"]
            /\ UNCHANGED <<audioBuffer, isProcessing>>
       ELSE AnalyzeForTabSync(p, "direct", tabId, buffer, analysisData, FALSE)
    /\ UNCHANGED <<analysisData, activeTab, nbuf>>

\* The rest of analyzeForTab after the first await: module import, the
\* analyzer, setAnalysisData(prev => ...), and the caller's continuation.
AnalysisSettles(p, outcome) ==
    /\ calls[p].pc = "module"
    /\ LET c == calls[p]
           r == TryAnalyze(c.tabId, c.buffer, outcome)
       IN  /\ analysisData' = IF r.store
                              THEN [analysisData EXCEPT ![c.tabId] = r.value]
                              ELSE analysisData
           /\ calls' = [q \in CallIds |->
                 IF q = p
                 THEN DoneCall
                 ELSE IF /\ calls[q].pc = "module"
                         /\ calls[q].tabId = c.tabId
                         /\ calls[q].buffer = c.buffer
                         /\ AnalyzerRan(outcome)
                      THEN [calls[q] EXCEPT !.overlapRan = TRUE]
                      ELSE calls[q]]
           /\ last' = [NoReturn EXCEPT !.op = c.op, !.tabId = c.tabId,
                                       !.buffer = c.buffer, !.outcome = outcome,
                                       !.ret = r.ret, !.threw = r.threw,
                                       !.ran = AnalyzerRan(outcome),
                                       !.seq = c.seq, !.seqRet = c.seqRet,
                                       !.overlapRan = c.overlapRan]
           \* handleFileUpload: finally; handleTabChange: line 151, which an
           \* exception leaving analyzeForTab would skip.
           /\ isProcessing' = IF c.op = "upload" \/ (c.op = "tab" /\ ~r.threw)
                              THEN FALSE ELSE isProcessing
    /\ UNCHANGED <<audioBuffer, activeTab, nbuf>>

ClearAnalysisData_KeepsOtherKeys ==
    /\ analysisData' = [k \in Kinds |-> IF k \in InitialKeys THEN NullRec
                                        ELSE analysisData[k]]
    /\ audioBuffer' = NoBuffer
    /\ last' = NoReturn
    /\ UNCHANGED <<activeTab, isProcessing, calls, nbuf>>

\* clearAnalysisData.
ClearAnalysisData ==
    /\ analysisData' = EmptyAnalysisData
    /\ audioBuffer' = NoBuffer
    /\ last' = NoReturn
    /\ UNCHANGED <<activeTab, isProcessing, calls, nbuf>>

OrchInit ==
    /\ analysisData = EmptyAnalysisData
    /\ audioBuffer = NoBuffer
    /\ activeTab = "basic"
    /\ isProcessing = FALSE
    /\ calls = [p \in CallIds |-> IdleCall]
    /\ nbuf = 0
    /\ last = NoReturn

IdleRest == /\ fr = 0
            /\ bd = 0
            /\ tp = 0
            /\ fft = 0

Init == OrchInit /\ IdleRest /\ IdleKernels /\ IdleLate

Next ==
    \/ \E p \in CallIds : HandleFileUpload(p) /\ UNCHANGED <<fr, bd, tp, fft, kernelVars, lateVars>>
    \/ \E p \in CallIds : LoadAudioBufferOk(p) /\ UNCHANGED <<fr, bd, tp, fft, kernelVars, lateVars>>
    \/ \E p \in CallIds : LoadAudioBufferNull(p) /\ UNCHANGED <<fr, bd, tp, fft, kernelVars, lateVars>>
    \/ \E p \in CallIds, k \in TabsTried :
          HandleTabChange(p, k) /\ UNCHANGED <<fr, bd, tp, fft, kernelVars, lateVars>>
    \/ \E p \in CallIds, k \in TabsTried, b \in 0..nbuf :
          AnalyzeForTab(p, k, b) /\ UNCHANGED <<fr, bd, tp, fft, kernelVars, lateVars>>
    \/ \E p \in CallIds, o \in Outcomes :
          AnalysisSettles(p, o) /\ UNCHANGED <<fr, bd, tp, fft, kernelVars, lateVars>>
    \/ ClearAnalysisData /\ UNCHANGED <<fr, bd, tp, fft, kernelVars, lateVars>>

Spec == Init /\ [][Next]_vars

(***************************************************************************)
(* Claims about Part 1                                                     *)
(***************************************************************************)

Failures == {"importFails", "analyzerThrows"}

\* C1: when analyzeForTab is called for the same (buffer, kind) twice in
\* sequence and the first call ran the analyzer and returned a record, the
\* second call does not start the analyzer again: it is answered from the
\* cache with the record the first call returned.
C1_SecondCallServedFromCache ==
    /\ last.seq => (last.hit /\ ~last.ran /\ last.ret = last.seqRet)
    /\ \A p \in CallIds : calls[p].pc = "module" => ~calls[p].seq

C1_Witness ==
    /\ last.seq
    /\ last.hit
    /\ Truthy(last.ret)
    /\ last.ret.buf = last.buffer

\* C2: every non-null cache entry was computed from the currently loaded
\* buffer (no entry of a previous buffer survives a buffer swap).
C2_NoStaleEntries ==
    \A k \in Kinds : Truthy(analysisData[k]) => analysisData[k].buf = audioBuffer

\* C3: a call never runs the analyzer for a (kind, buffer) for which an
\* overlapping call (issued before this one stored its result) has already
\* run it.
C3_SingleFlight == ~(last.ran /\ last.overlapRan)

\* C4: analyzeForTab never lets an exception reach its caller; when the
\* module import or the analyzer throws, the call completes with null.
C4_FailureReturnsNull ==
    /\ ~last.threw
    /\ last.outcome \in Failures => last.ret = NullRec

C4_Witness ==
    /\ last.outcome \in Failures
    /\ last.ret = NullRec

\* C5: the step in which an analysis fails changes no cache entry, neither
\* of another kind nor of the failed kind itself.
C5_FailureLeavesCacheUnchanged ==
    [][(\E p \in CallIds : /\ calls[p].pc = "module"
                           /\ calls'[p].pc = "done"
                           /\ last'.outcome \in Failures)
        => analysisData' = analysisData]_vars

C5_Witness ==
    /\ last.outcome \in Failures
    /\ \E k \in Kinds : k # last.tabId /\ Truthy(analysisData[k])
    /\ ~Truthy(analysisData[last.tabId])

\* C6: the record cached under a kind carries that kind as its type tag.
C6_RecordTypeMatchesKind ==
    \A k \in Kinds : Truthy(analysisData[k]) => analysisData[k].type = k

(***************************************************************************)
(* Part 2: the framing loop shared by the analyzers                        *)
(*   for (let i = 0; i < channelData.length - W; i += H) { ... }           *)
(***************************************************************************)
MaxLen == 9         \* buffer lengths tried
MaxWindow == 4      \* window sizes tried
MaxHop == 3         \* hop sizes tried

\* Loop condition of the framing loop at offset i.
FrameLoopContinues(i, len, W) == i < len - W

\* channelData.slice(i, i + W).length, equally the number of samples the
\* inner loop `for (j = 0; j < W; j++) channelData[i + j]` finds in range.
SliceLength(i, len, W) ==
    (IF i + W < len THEN i + W ELSE len) - (IF i < len THEN i ELSE len)

FramingInit ==
    /\ fr \in [len : 0..MaxLen, W : 1..MaxWindow, H : 1..MaxHop,
               i : {0}, frames : {<<>>}, pc : {"loop"}]

\* One iteration of the loop: push the frame at offset i, advance by H.
FrameLoopIteration ==
    /\ fr.pc = "loop"
    /\ FrameLoopContinues(fr.i, fr.len, fr.W)
    /\ fr' = [fr EXCEPT !.frames = Append(@, SliceLength(fr.i, fr.len, fr.W)),
                        !.i = @ + fr.H]

\* The loop condition fails: the analyzer goes on with the frames it has.
FrameLoopExit ==
    /\ fr.pc = "loop"
    /\ ~FrameLoopContinues(fr.i, fr.len, fr.W)
    /\ fr' = [fr EXCEPT !.pc = "done"]

IdleOrch == OrchInit

InitFraming == IdleOrch /\ FramingInit /\ bd = 0 /\ tp = 0 /\ fft = 0 /\ IdleKernels /\ IdleLate

NextFraming ==
    \/ FrameLoopIteration /\ UNCHANGED <<orchVars, bd, tp, fft, kernelVars, lateVars>>
    \/ FrameLoopExit /\ UNCHANGED <<orchVars, bd, tp, fft, kernelVars, lateVars>>

SpecFraming == InitFraming /\ [][NextFraming]_vars

\* C7: the loop yields floor((len-W)/H)+1 frames when len >= W and none
\* when len < W, every frame having exactly W samples.
C7_FrameCount ==
    fr.pc = "done" =>
        /\ Len(fr.frames) = IF fr.len >= fr.W
                            THEN (fr.len - fr.W) \div fr.H + 1
                            ELSE 0
        /\ \A n \in 1..Len(fr.frames) : fr.frames[n] = fr.W

(***************************************************************************)
(* Part 3: beat picking                                                    *)
(*   findBeats (audio/beatAnalysis.js) and detectBeatsFromOnsets           *)
(*   (audio/tempoAnalysis.js).  Values are integers; a sample value v      *)
(*   stands for the real v, the combined sequence is kept times 10, and a  *)
(*   beat time f*hopSize/sampleRate is kept as its numerator f*hopSize.    *)
(***************************************************************************)
MaxFrames == 25     \* longest energy / onset sequence tried
ShortFrames == 15   \* a shorter sequence length tried
MaxPulses == 3      \* non-zero entries per sequence

\* <<sampleRate, hopSize>> pairs tried.
BeatConfigs == {<<7, 1>>, <<11, 1>>, <<20, 3>>}

\* 0-based element access, as in the source.
At(arr, i) == arr[i + 1]

RECURSIVE SumRange(_, _, _)
\* Sum of arr[j] for from <= j < to.
SumRange(arr, from, to) ==
    IF from >= to THEN 0 ELSE At(arr, from) + SumRange(arr, from + 1, to)

RECURSIVE MaxOf(_, _)
\* Math.max(...arr) for a non-empty array of non-negative values.
MaxOf(arr, n) ==
    IF n = 0 THEN 0
    ELSE LET m == MaxOf(arr, n - 1)
         IN  IF arr[n] > m THEN arr[n] ELSE m

\* combinedData = energyData.map((energy, i) => energy*0.7 + (onsetData[i] || 0)*0.3),
\* times 10.
CombinedData(energyData, onsetData) ==
    [i \in 1..Len(energyData) |->
        7 * energyData[i] + 3 * (IF i <= Len(onsetData) THEN onsetData[i] ELSE 0)]

MinIntervalPassed_Dropped(i, beats, minBeatInterval) == TRUE

\* beats.length === 0 || i - beats[beats.length - 1] > minBeatInterval
\* (the same condition is in detectBeatsFromOnsets).
MinIntervalPassed(i, beats, minBeatInterval) ==
    Len(beats) = 0 \/ i - beats[Len(beats)] > minBeatInterval

\* Peak test of findBeats on normalizedData = combinedData / maxValue:
\* above max(0.3, localAverage * 1.3) and a strict local peak.  With
\* maxValue = 0 the normalized values are NaN and every comparison is false.
FindBeatsPeak(c, maxValue, i, windowSize) ==
    /\ maxValue > 0
    /\ 10 * At(c, i) > 3 * maxValue
    /\ 10 * At(c, i) * 2 * windowSize > 13 * SumRange(c, i - windowSize, i + windowSize)
    /\ At(c, i) > At(c, i - 1)
    /\ At(c, i) > At(c, i + 1)

RECURSIVE FindBeatsLoop(_, _, _, _, _, _)
FindBeatsLoop(c, maxValue, i, windowSize, minBeatInterval, beats) ==
    IF i >= Len(c) - windowSize THEN beats
    ELSE FindBeatsLoop(c, maxValue, i + 1, windowSize, minBeatInterval,
            IF /\ FindBeatsPeak(c, maxValue, i, windowSize)
               /\ MinIntervalPassed(i, beats, minBeatInterval)
            THEN Append(beats, i) ELSE beats)

\* findBeats: the beat times as numerators over sampleRate.
findBeats(energyData, onsetData, sampleRate, hopSize) ==
    LET minBeatInterval == (3 * sampleRate) \div (10 * hopSize)
        c == CombinedData(energyData, onsetData)
        maxValue == MaxOf(c, Len(c))
        windowSize == sampleRate \div hopSize
        frames == FindBeatsLoop(c, maxValue, windowSize, windowSize,
                                minBeatInterval, <<>>)
    IN  [k \in 1..Len(frames) |-> frames[k] * hopSize]

\* Peak test of detectBeatsFromOnsets on onsetFunction = raw / maxOnset
\* (raw when maxOnset is 0): above max(0.3, localAverage * 1.5) and a strict
\* local peak.
DetectBeatsPeak(raw, maxOnset, i, localWindow) ==
    LET den == IF maxOnset > 0 THEN maxOnset ELSE 1
    IN  /\ 10 * At(raw, i) > 3 * den
        /\ 10 * At(raw, i) * 2 * localWindow >
               15 * SumRange(raw, i - localWindow, i + localWindow)
        /\ At(raw, i) > At(raw, i - 1)
        /\ At(raw, i) > At(raw, i + 1)

RECURSIVE DetectBeatsLoop(_, _, _, _, _, _)
DetectBeatsLoop(raw, maxOnset, i, localWindow, minBeatInterval, beats) ==
    IF i >= Len(raw) - localWindow THEN beats
    ELSE DetectBeatsLoop(raw, maxOnset, i + 1, localWindow, minBeatInterval,
            IF /\ DetectBeatsPeak(raw, maxOnset, i, localWindow)
               /\ MinIntervalPassed(i, beats, minBeatInterval)
            THEN Append(beats, i) ELSE beats)

\* detectBeatsFromOnsets on the onset function calculateOnsetDetectionFunction
\* returns for the raw onset strengths: beat times as numerators over sampleRate.
detectBeatsFromOnsets(raw, sampleRate, hopSize) ==
    LET minBeatInterval == (2 * sampleRate) \div (10 * hopSize)
        localWindow == sampleRate \div hopSize
        frames == DetectBeatsLoop(raw, MaxOf(raw, Len(raw)), localWindow,
                                  localWindow, minBeatInterval, <<>>)
    IN  [k \in 1..Len(frames) |-> frames[k] * hopSize]

RECURSIVE PulseSets(_, _)
\* The sets of at most k positions in 1..n.
PulseSets(n, k) ==
    IF k = 0 THEN {{}}
    ELSE PulseSets(n, k - 1) \cup
         {S \cup {x} : S \in PulseSets(n, k - 1), x \in 1..n}

\* A sequence of n frames, zero except at the positions of S; the first
\* pulse has the value accent, the others 1.
PulseTrain(n, S, accent) ==
    [i \in 1..n |-> IF i \notin S THEN 0
                    ELSE IF \A x \in S : i <= x THEN accent ELSE 1]

\* calculateBeatStrengths(beats, energyData): a beat time is its numerator
\* over sampleRate, and the frame index is
\* Math.floor((beatTime * 44100) / 512).
calculateBeatStrengths(beats, energyData, sampleRate) ==
    [k \in 1..Len(beats) |->
        LET frameIndex == (beats[k] * 44100) \div (sampleRate * 512)
        IN  IF frameIndex >= 0 /\ frameIndex < Len(energyData)
            THEN At(energyData, frameIndex) ELSE 0]

\* <<sampleRate, hopSize>> of analyzeBeats for buffers of 8 kHz and 44.1 kHz,
\* tried with one pulse near the middle of LongFrames frames.
AudioConfigs == {<<8000, 92>>, <<44100, 507>>}
LongFrames == 180

BeatsState(energyData, onsetData, cfg) ==
    [energyData |-> energyData, onsetData |-> onsetData,
     sampleRate |-> cfg[1], hopSize |-> cfg[2],
     ranBeats |-> FALSE, beats |-> <<>>,
     ranStrengths |-> FALSE, beatStrengths |-> <<>>,
     ranTempo |-> FALSE, tempoBeats |-> <<>>]

BeatsInit ==
    \/ \E n \in {0, 1, ShortFrames, MaxFrames}, cfg \in BeatConfigs,
          accent \in 1..2, withOnsets \in BOOLEAN :
         \E S \in PulseSets(n, MaxPulses) :
           \* the onset sequence: absent, or the energy rise one frame early
           bd = BeatsState(PulseTrain(n, S, accent),
                           IF withOnsets /\ n > 0
                           THEN Tail(PulseTrain(n, S, accent)) ELSE <<>>,
                           cfg)
    \/ \E cfg \in AudioConfigs, accent \in 1..2 :
         \E x \in (LongFrames \div 2 - 3)..(LongFrames \div 2) :
           bd = BeatsState([i \in 1..LongFrames |->
                               IF i = x THEN 2 * accent
                               ELSE IF i = x - 1 THEN accent ELSE 0],
                           <<>>, cfg)

\* analyzeBeats line 18.
RunFindBeats ==
    /\ ~bd.ranBeats
    /\ bd' = [bd EXCEPT !.ranBeats = TRUE,
                        !.beats = findBeats(bd.energyData, bd.onsetData,
                                            bd.sampleRate, bd.hopSize)]

\* analyzeTempo line 1114, the energy sequence serving as raw onset strengths.
RunDetectBeatsFromOnsets ==
    /\ ~bd.ranTempo
    /\ bd' = [bd EXCEPT !.ranTempo = TRUE,
                        !.tempoBeats = detectBeatsFromOnsets(bd.energyData,
                                            bd.sampleRate, bd.hopSize)]

\* analyzeBeats line 24.
RunCalculateBeatStrengths ==
    /\ bd.ranBeats
    /\ ~bd.ranStrengths
    /\ bd' = [bd EXCEPT !.ranStrengths = TRUE,
                        !.beatStrengths = calculateBeatStrengths(bd.beats,
                                              bd.energyData, bd.sampleRate)]

InitBeats == IdleOrch /\ BeatsInit /\ fr = 0 /\ tp = 0 /\ fft = 0 /\ IdleKernels /\ IdleLate

NextBeats ==
    \/ RunFindBeats /\ UNCHANGED <<orchVars, fr, tp, fft, kernelVars, lateVars>>
    \/ RunDetectBeatsFromOnsets /\ UNCHANGED <<orchVars, fr, tp, fft, kernelVars, lateVars>>
    \/ RunCalculateBeatStrengths /\ UNCHANGED <<orchVars, fr, tp, fft, kernelVars, lateVars>>

SpecBeats == InitBeats /\ [][NextBeats]_vars

\* Beat times (numerators over sampleRate) strictly increase and consecutive
\* ones are at least tenths/10 seconds apart.
OrderedAndSpaced(times, sampleRate, tenths) ==
    \A k \in 1..(Len(times) - 1) :
        /\ times[k] < times[k + 1]
        /\ 10 * (times[k + 1] - times[k]) >= tenths * sampleRate

\* C8: the beat times of the beat detector and of the tempo analyzer are
\* strictly increasing, consecutive beats being at least 300 ms resp. 200 ms
\* apart.
C8_BeatOrdering ==
    /\ OrderedAndSpaced(bd.beats, bd.sampleRate, 3)
    /\ OrderedAndSpaced(bd.tempoBeats, bd.sampleRate, 2)

C8_Witness ==
    /\ bd.ranBeats
    /\ bd.ranTempo
    /\ Len(bd.beats) >= 2
    /\ Len(bd.tempoBeats) > Len(bd.beats)

\* The energy frame at which beat k was detected: its time times sampleRate,
\* over the hop size of the analyzer.
DetectedFrame(k) == bd.beats[k] \div bd.hopSize

\* C21 (as stated): beatStrengths has one entry per beat, and the strength of
\* a beat is the energy of the frame at which the beat was detected.
C21_StrengthIsEnergyAtBeat ==
    bd.ranStrengths =>
        /\ Len(bd.beatStrengths) = Len(bd.beats)
        /\ \A k \in 1..Len(bd.beats) :
               bd.beatStrengths[k] = At(bd.energyData, DetectedFrame(k))

(***************************************************************************)
(* Part 4: calculateTempo (audio/beatAnalysis.js)                          *)
(*   Beat times are in tenths of a second; a BPM value is the rational     *)
(*   num/den.                                                              *)
(***************************************************************************)
MaxBeats == 3       \* beats per list tried
MaxGap == 25        \* largest gap between beats, in tenths of a second
MinGap == 4         \* findBeats leaves more than 300 ms between beats
FirstBeat == 10     \* time of the first beat, in tenths of a second

Rat(n, d) == [num |-> n, den |-> d]
RatEq(a, b) == a.num * b.den = b.num * a.den
RatLess(a, b) == a.num * b.den < b.num * a.den
RatLeq(a, b) == a.num * b.den <= b.num * a.den

\* intervals.push(beats[i] - beats[i - 1])
Intervals(beats) == [i \in 1..(Len(beats) - 1) |-> beats[i + 1] - beats[i]]

\* intervals.sort((a, b) => a - b); intervals[Math.floor(intervals.length / 2)]
MedianInterval(intervals) ==
    SortSeq(intervals, LAMBDA a, b : a < b)[(Len(intervals) \div 2) + 1]

\* Math.round of a positive rational.
Round(r) == (2 * r.num + r.den) \div (2 * r.den)

\* calculateTempo(beats, duration).
calculateTempo(beats) ==
    IF Len(beats) < 2 THEN Rat(0, 1)
    ELSE LET medianInterval == MedianInterval(Intervals(beats))
             bpm == Rat(600, medianInterval)      \* 60 / medianInterval
             lo == Rat(60, 1)
             hi == Rat(200, 1)
             double == Rat(2 * bpm.num, bpm.den)
             half == Rat(bpm.num, 2 * bpm.den)
         IN  IF RatLess(bpm, lo) /\ RatLeq(double, hi) THEN double
             ELSE IF RatLess(hi, bpm) /\ RatLeq(lo, half) THEN half
             ELSE Rat(Round(bpm), 1)

RECURSIVE BeatLists(_)
\* Strictly increasing beat lists of n beats whose gaps are in MinGap..MaxGap.
BeatLists(n) ==
    IF n = 0 THEN {<<>>}
    ELSE IF n = 1 THEN {<<FirstBeat>>}
    ELSE {Append(b, b[Len(b)] + g) : b \in BeatLists(n - 1), g \in MinGap..MaxGap}

TempoInit ==
    \E n \in 0..MaxBeats : \E b \in BeatLists(n) :
        tp = [beats |-> b, pc |-> "input", tempo |-> Rat(0, 1)]

\* analyzeBeats line 21.
RunCalculateTempo ==
    /\ tp.pc = "input"
    /\ tp' = [tp EXCEPT !.pc = "done", !.tempo = calculateTempo(tp.beats)]

InitTempo == IdleOrch /\ TempoInit /\ fr = 0 /\ bd = 0 /\ fft = 0 /\ IdleKernels /\ IdleLate

NextTempo == RunCalculateTempo /\ UNCHANGED <<orchVars, fr, bd, fft, kernelVars, lateVars>>

SpecTempo == InitTempo /\ [][NextTempo]_vars

InRange(r) == RatLeq(Rat(60, 1), r) /\ RatLeq(r, Rat(200, 1))

\* C9: a raw BPM outside [60,200] is doubled or halved when that lands in
\* [60,200]; when neither does, the raw value is returned (as such or
\* rounded like an in-range value).
C9_TempoFold ==
    (tp.pc = "done" /\ Len(tp.beats) >= 2) =>
        LET raw == Rat(600, MedianInterval(Intervals(tp.beats)))
            double == Rat(2 * raw.num, raw.den)
            half == Rat(raw.num, 2 * raw.den)
        IN  ~InRange(raw) =>
               IF RatLess(raw, Rat(60, 1)) /\ InRange(double)
               THEN RatEq(tp.tempo, double)
               ELSE IF RatLess(Rat(200, 1), raw) /\ InRange(half)
               THEN RatEq(tp.tempo, half)
               ELSE RatEq(tp.tempo, raw) \/ RatEq(tp.tempo, Rat(Round(raw), 1))

(***************************************************************************)
(* Part 5: the FFT constructor (utils/audioUtils.js)                       *)
(***************************************************************************)
MaxFFTSize == 130   \* sizes tried: 0..MaxFFTSize

NotInteger == -1

RECURSIVE Log2(_)
\* Math.log2(size) when it is an integer, NotInteger otherwise (a fraction,
\* -Infinity for 0).
Log2(size) ==
    IF size < 1 THEN NotInteger
    ELSE IF size = 1 THEN 0
    ELSE IF size % 2 = 1 THEN NotInteger
    ELSE LET r == Log2(size \div 2)
         IN  IF r = NotInteger THEN NotInteger ELSE r + 1

RECURSIVE reverseBitsLoop(_, _, _)
reverseBitsLoop(num, bits, result) ==
    IF bits = 0 THEN result
    ELSE reverseBitsLoop(num \div 2, bits - 1, 2 * result + (num % 2))

reverseBits_OneBitShort(num, bits) == reverseBitsLoop(num, bits - 1, 0)

\* reverseBits(num, bits)
reverseBits(num, bits) == reverseBitsLoop(num, bits, 0)

PowerOfTwoMessage == "FFT size must be a power of 2"
ArrayLengthMessage == "Invalid array length"

\* new FFT(size): the object built, or the error thrown on the way.
FFTConstructor(size) ==
    LET log2Size == Log2(size)
    IN  IF log2Size = NotInteger
        THEN [pc |-> "threw", size |-> size, error |-> PowerOfTwoMessage,
              log2Size |-> 0, bitReversalIndices |-> <<>>, twiddleCount |-> 0]
        ELSE IF size % 2 # 0
        \* new Array(size / 2) with a fractional length
        THEN [pc |-> "threw", size |-> size, error |-> ArrayLengthMessage,
              log2Size |-> 0, bitReversalIndices |-> <<>>, twiddleCount |-> 0]
        ELSE [pc |-> "constructed", size |-> size, error |-> "",
              log2Size |-> log2Size,
              bitReversalIndices |->
                  [i \in 1..size |-> reverseBits(i - 1, log2Size)],
              twiddleCount |-> size \div 2]

FFTInit ==
    \E size \in 0..MaxFFTSize :
        fft = [pc |-> "new", size |-> size, error |-> "", log2Size |-> 0,
               bitReversalIndices |-> <<>>, twiddleCount |-> 0]

NewFFT ==
    /\ fft.pc = "new"
    /\ fft' = FFTConstructor(fft.size)

InitFFT == IdleOrch /\ FFTInit /\ fr = 0 /\ bd = 0 /\ tp = 0 /\ IdleKernels /\ IdleLate

NextFFT == NewFFT /\ UNCHANGED <<orchVars, fr, bd, tp, kernelVars, lateVars>>

SpecFFT == InitFFT /\ [][NextFFT]_vars

IsPowerOfTwo(n) == \E k \in 0..n : 2 ^ k = n

\* C10: construction with a size that is not a power of two fails with the
\* size error and yields no FFT object; construction with a power-of-two
\* size succeeds.
C10_SizeGuard ==
    fft.pc # "new" =>
        IF IsPowerOfTwo(fft.size)
        THEN fft.pc = "constructed"
        ELSE fft.pc = "threw" /\ fft.error = PowerOfTwoMessage

\* C30: the bitReversalIndices table of a constructed FFT of size N holds
\* every index 0..N-1 and is its own inverse: table[table[i]] = i.
C30_BitReversalInvolution ==
    fft.pc = "constructed" =>
        LET table == fft.bitReversalIndices
            N == fft.size
        IN  /\ Len(table) = N
            /\ \A i \in 0..(N - 1) : table[i + 1] \in 0..(N - 1)
            /\ \A j \in 0..(N - 1) : \E i \in 0..(N - 1) : table[i + 1] = j
            /\ \A i \in 0..(N - 1) : table[table[i + 1] + 1] = i

C30_Witness ==
    /\ fft.pc = "constructed"
    /\ fft.size = 8
    /\ fft.bitReversalIndices = <<0, 4, 2, 6, 1, 5, 3, 7>>

(***************************************************************************)
(* Part 6: FFT.forward and FFT.getMagnitudeSpectrum (utils/audioUtils.js)  *)
(*   A complex number is kept exactly, as an element of the ring Z[w] with *)
(*   w = e^(2*pi*i/N): the sequence of its N/2 integer coordinates on      *)
(*   1, w, ..., w^(N/2-1), where w^(N/2) = -1.  The twiddle factor         *)
(*   {cos(-2*pi*k/N), sin(-2*pi*k/N)} is w^(N-k), and the two lines that   *)
(*   multiply real and imaginary parts are a product in that ring.         *)
(***************************************************************************)
MaxForwardSize == 16    \* FFT sizes tried: the powers of two 2..MaxForwardSize
MaxDenseSize == 4       \* sizes for which every 0/1 input is tried

firstVars == <<orchVars, fr, bd, tp, fft>>

IdleFirst == IdleOrch /\ IdleRest

CZero(M) == [m \in 1..M |-> 0]

\* The real number x.
CReal(x, M) == [m \in 1..M |-> IF m = 1 THEN x ELSE 0]

CAdd(a, b) == [m \in 1..Len(a) |-> a[m] + b[m]]

CSub(a, b) == [m \in 1..Len(a) |-> a[m] - b[m]]

\* z * w^k for 0 <= k < N, N = 2 * Len(z).
CRot(z, k) ==
    LET M == Len(z)
        N == 2 * M
    IN  [m \in 1..M |->
            LET j == ((m - 1) - k + N) % N
            IN  IF j < M THEN z[j + 1] ELSE 0 - z[j - M + 1]]

RECURSIVE CMulFrom(_, _, _)
CMulFrom(a, b, j) ==
    IF j > Len(a) THEN CZero(Len(a))
    ELSE LET rot == CRot(b, j - 1)
         IN  CAdd([m \in 1..Len(a) |-> a[j] * rot[m]], CMulFrom(a, b, j + 1))

\* The product a * b.
CMul(a, b) == CMulFrom(a, b, 1)

RECURSIVE CConjFrom(_, _)
CConjFrom(z, j) ==
    IF j > Len(z) THEN CZero(Len(z))
    ELSE CAdd(CRot(CReal(z[j], Len(z)), (2 * Len(z) - (j - 1)) % (2 * Len(z))),
              CConjFrom(z, j + 1))

\* result.real[i] * result.real[i] + result.imag[i] * result.imag[i], the
\* square of the magnitude (Math.sqrt is strictly increasing, so two
\* magnitudes are equal exactly when their squares are).
MagnitudeSquared(z) == CMul(z, CConjFrom(z, 1))

\* this.twiddleFactors[i], built in the constructor for 0 <= i < size / 2.
TwiddleFactor(i, size) == CRot(CReal(1, size \div 2), (size - i) % size)

\* Bit-reversal permutation: real[i] = inputReal[j], imag[i] = 0.
BitReversalPermutation(inputReal, indices) ==
    [i \in 1..Len(inputReal) |->
        CReal(inputReal[indices[i] + 1], Len(inputReal) \div 2)]

ButterflyLower_TempOnly(xi, temp) == CSub(CZero(Len(xi)), temp)

\* real[j] = realI - tempReal; imag[j] = imagI - tempImag
ButterflyLower(xi, temp) == CSub(xi, temp)

\* real[i] = realI + tempReal; imag[i] = imagI + tempImag
ButterflyUpper(xi, temp) == CAdd(xi, temp)

\* One pass of the stage loop.  The butterflies of a stage touch disjoint
\* pairs (i, i + butterflyHalfSpan), so each position gets its value from
\* the butterfly it belongs to.
ButterflyStage(data, stage, N) ==
    LET butterflySpan == 2 ^ stage
        butterflyHalfSpan == butterflySpan \div 2
        twiddleStride == N \div butterflySpan
    IN  [p \in 1..N |->
            LET pos == (p - 1) % butterflySpan
                k == IF pos < butterflyHalfSpan THEN pos
                     ELSE pos - butterflyHalfSpan
                i == IF pos < butterflyHalfSpan THEN p
                     ELSE p - butterflyHalfSpan
                j == i + butterflyHalfSpan
                temp == CMul(TwiddleFactor(k * twiddleStride, N), data[j])
            IN  IF pos < butterflyHalfSpan
                THEN ButterflyUpper(data[i], temp)
                ELSE ButterflyLower(data[i], temp)]

\* The inputs of size N: the unit impulses, and for small N every 0/1 signal.
ForwardInputs(N) ==
    {[n \in 1..N |-> IF n = p THEN 1 ELSE 0] : p \in 1..N}
    \cup (IF N <= MaxDenseSize THEN [1..N -> {0, 1}] ELSE {})

ForwardInit ==
    \E size \in 2..MaxForwardSize :
        /\ FFTConstructor(size).pc = "constructed"
        /\ \E inputReal \in ForwardInputs(size) :
              fw = [pc |-> "called", size |-> size, inputReal |-> inputReal,
                    stage |-> 0, data |-> <<>>, magnitude |-> <<>>]

\* forward, lines 119-128.
ForwardReorder ==
    /\ fw.pc = "called"
    /\ fw' = [fw EXCEPT
                !.pc = "stages", !.stage = 1,
                !.data = BitReversalPermutation(fw.inputReal,
                            FFTConstructor(fw.size).bitReversalIndices)]

\* forward, one iteration of the loop of lines 131-158.
ForwardStage ==
    /\ fw.pc = "stages"
    /\ fw.stage <= FFTConstructor(fw.size).log2Size
    /\ fw' = [fw EXCEPT !.stage = @ + 1,
                        !.data = ButterflyStage(fw.data, fw.stage, fw.size)]

\* forward returns; getMagnitudeSpectrum, lines 165-171.
GetMagnitudeSpectrum ==
    /\ fw.pc = "stages"
    /\ fw.stage > FFTConstructor(fw.size).log2Size
    /\ fw' = [fw EXCEPT
                !.pc = "done",
                !.magnitude = [i \in 1..(fw.size \div 2) |->
                                  MagnitudeSquared(fw.data[i])]]

InitForward ==
    /\ IdleFirst /\ IdleLate /\ ForwardInit
    /\ ps = 0 /\ ba = 0 /\ ch = 0 /\ th = 0 /\ stl = 0 /\ msh = 0 /\ sil = 0

othersForward == <<firstVars, lateVars, ps, ba, ch, th, stl, msh, sil>>

NextForward ==
    \/ ForwardReorder /\ UNCHANGED othersForward
    \/ ForwardStage /\ UNCHANGED othersForward
    \/ GetMagnitudeSpectrum /\ UNCHANGED othersForward

SpecForward == InitForward /\ [][NextForward]_vars

IsUnitImpulse(x) ==
    \E p \in 1..Len(x) : \A n \in 1..Len(x) : x[n] = IF n = p THEN 1 ELSE 0

\* C11: for a unit impulse, all bins returned by forward have the same
\* magnitude, and so have all bins of the magnitude spectrum.
C11_ImpulseFlat ==
    (fw.pc = "done" /\ IsUnitImpulse(fw.inputReal)) =>
        /\ \A a, b \in 1..fw.size :
              MagnitudeSquared(fw.data[a]) = MagnitudeSquared(fw.data[b])
        /\ \A a, b \in 1..(fw.size \div 2) : fw.magnitude[a] = fw.magnitude[b]

C11_Witness ==
    /\ fw.pc = "done"
    /\ fw.size = 8
    /\ fw.inputReal[4] = 1
    /\ IsUnitImpulse(fw.inputReal)
    /\ fw.data[2] # fw.data[1]
    /\ fw.magnitude[2] = CReal(1, 4)

(***************************************************************************)
(* Part 13: detectSilence (audio/basicAnalysis.js)                         *)
(*   Amplitudes and the threshold are small integers; indices are 0-based  *)
(*   as in the source.                                                     *)
(***************************************************************************)
MaxAmpLen == 5      \* longest amplitude sequence tried
MaxAmp == 2         \* amplitudes tried: 0..MaxAmp, thresholds 0..MaxAmp

\* silentStart = null
NullStart == -1

SilenceInit ==
    \E n \in 0..MaxAmpLen :
      \E amplitudes \in [1..n -> 0..MaxAmp], threshold \in 0..MaxAmp :
        sil = [amplitudes |-> amplitudes, threshold |-> threshold, i |-> 0,
               silentStart |-> NullStart, silentRegions |-> <<>>,
               pc |-> "loop"]

\* Loop body, lines 86-93.
DetectSilenceStep ==
    /\ sil.pc = "loop"
    /\ sil.i < Len(sil.amplitudes)
    /\ IF At(sil.amplitudes, sil.i) < sil.threshold
       THEN sil' = [sil EXCEPT
                      !.i = @ + 1,
                      !.silentStart = IF @ = NullStart THEN sil.i ELSE @]
       ELSE sil' = [sil EXCEPT
                      !.i = @ + 1,
                      !.silentStart = NullStart,
                      !.silentRegions =
                          IF sil.silentStart # NullStart
                          THEN Append(@, [start |-> sil.silentStart,
                                          end |-> sil.i - 1])
                          ELSE @]

TailRegions_Dropped(silentStart, length, regions) == regions

\* Lines 96-99: a run still open when the loop ends reaches the last index.
TailRegions(silentStart, length, regions) ==
    IF silentStart # NullStart
    THEN Append(regions, [start |-> silentStart, end |-> length - 1])
    ELSE regions

\* The loop ends; lines 96-101.
DetectSilenceReturn ==
    /\ sil.pc = "loop"
    /\ sil.i >= Len(sil.amplitudes)
    /\ sil' = [sil EXCEPT
                 !.pc = "done",
                 !.silentRegions = TailRegions(sil.silentStart,
                                               Len(sil.amplitudes), @)]

InitSilence ==
    /\ IdleFirst /\ IdleLate /\ SilenceInit
    /\ fw = 0 /\ ps = 0 /\ ba = 0 /\ ch = 0 /\ th = 0 /\ stl = 0 /\ msh = 0

othersSilence == <<firstVars, lateVars, fw, ps, ba, ch, th, stl, msh>>

NextSilence ==
    \/ DetectSilenceStep /\ UNCHANGED othersSilence
    \/ DetectSilenceReturn /\ UNCHANGED othersSilence

SpecSilence == InitSilence /\ [][NextSilence]_vars

\* C20: the regions returned are in order, disjoint and not adjacent, and
\* together cover exactly the indices whose amplitude is below the threshold
\* (so every region is a maximal run, a run up to the last index included).
C20_SilentRuns ==
    sil.pc = "done" =>
        LET r == sil.silentRegions
            n == Len(sil.amplitudes)
        IN  /\ \A k \in 1..Len(r) : 0 <= r[k].start /\ r[k].start <= r[k].end
                                    /\ r[k].end <= n - 1
            /\ \A k \in 1..(Len(r) - 1) : r[k].end + 1 < r[k + 1].start
            /\ \A x \in 0..(n - 1) :
                  (At(sil.amplitudes, x) < sil.threshold)
                  <=> (\E k \in 1..Len(r) : r[k].start <= x /\ x <= r[k].end)

C20_Witness ==
    /\ sil.pc = "done"
    /\ Len(sil.silentRegions) = 2
    /\ sil.silentRegions[1].start = 0
    /\ sil.silentRegions[2].end = Len(sil.amplitudes) - 1
    /\ sil.silentRegions[2].start < sil.silentRegions[2].end

(***************************************************************************)
(* Part 10: the tempo histogram (audio/tempoAnalysis.js)                   *)
(*   Beat times are in tenths of a second.  The histogram is the Map in    *)
(*   insertion order, a sequence of <<bpm, count>> with the counts kept    *)
(*   doubled (a full vote is 2, a half-time or double-time vote 1).        *)
(***************************************************************************)
MaxTempoBeats == 4      \* beats per list tried

\* Gaps between consecutive beats tried, in tenths of a second
\* (detectBeatsFromOnsets leaves at least 200 ms).
TempoGaps == {2, 3, 4, 5, 6, 9, 10, 21}

InHistogramRange_NoLower(bpm) == bpm <= 200

\* bpm >= 60 && bpm <= 200
InHistogramRange(bpm) == bpm >= 60 /\ bpm <= 200

\* tempoHistogram.set(bpm, (tempoHistogram.get(bpm) || 0) + weight)
HistogramAdd(hist, bpm, weight) ==
    IF \E k \in 1..Len(hist) : hist[k][1] = bpm
    THEN [k \in 1..Len(hist) |->
            IF hist[k][1] = bpm THEN <<bpm, hist[k][2] + weight>> ELSE hist[k]]
    ELSE Append(hist, <<bpm, weight>>)

\* The three votes of one interval, lines 1294-1311.
HistogramVote(hist, interval) ==
    LET bpm == Round(Rat(600, interval))
        halfTime == Round(Rat(300, interval))
        doubleTime == Round(Rat(1200, interval))
        h1 == IF InHistogramRange(bpm) THEN HistogramAdd(hist, bpm, 2) ELSE hist
        h2 == IF InHistogramRange(halfTime)
              THEN HistogramAdd(h1, halfTime, 1) ELSE h1
    IN  IF InHistogramRange(doubleTime)
        THEN HistogramAdd(h2, doubleTime, 1) ELSE h2

RECURSIVE createTempoHistogramFrom(_, _, _)
createTempoHistogramFrom(intervals, k, hist) ==
    IF k > Len(intervals) THEN hist
    ELSE createTempoHistogramFrom(intervals, k + 1,
                                  HistogramVote(hist, intervals[k]))

createTempoHistogram(intervals) == createTempoHistogramFrom(intervals, 1, <<>>)

RECURSIVE findMainTempoFrom(_, _, _, _)
\* for (const [tempo, count] of tempoHistogram) if (count > maxCount) ...
findMainTempoFrom(hist, k, maxCount, mainTempo) ==
    IF k > Len(hist) THEN mainTempo
    ELSE IF hist[k][2] > maxCount
         THEN findMainTempoFrom(hist, k + 1, hist[k][2], hist[k][1])
         ELSE findMainTempoFrom(hist, k + 1, maxCount, mainTempo)

findMainTempo(hist) == findMainTempoFrom(hist, 1, 0, 0)

RECURSIVE HistogramTotal(_, _)
HistogramTotal(hist, k) ==
    IF k > Len(hist) THEN 0 ELSE hist[k][2] + HistogramTotal(hist, k + 1)

\* tempoHistogram.get(mainTempo) || 0
HistogramGet(hist, bpm) ==
    IF \E k \in 1..Len(hist) : hist[k][1] = bpm
    THEN hist[CHOOSE k \in 1..Len(hist) : hist[k][1] = bpm][2]
    ELSE 0

\* calculateTempoConfidence: a rational.
calculateTempoConfidence(hist, mainTempo) ==
    LET totalCounts == HistogramTotal(hist, 1)
        mainTempoCount == HistogramGet(hist, mainTempo)
    IN  IF totalCounts > 0 THEN Rat(mainTempoCount, totalCounts) ELSE Rat(0, 1)

RECURSIVE TempoBeatLists(_)
\* Increasing beat lists of n beats with gaps from TempoGaps.
TempoBeatLists(n) ==
    IF n = 0 THEN {<<>>}
    ELSE IF n = 1 THEN {<<FirstBeat>>}
    ELSE {Append(b, b[Len(b)] + g) : b \in TempoBeatLists(n - 1), g \in TempoGaps}

HistogramInit ==
    \E n \in 0..MaxTempoBeats : \E b \in TempoBeatLists(n) :
        th = [beats |-> b, pc |-> "called", tempoHistogram |-> <<>>,
              mainTempo |-> 0, tempoConfidence |-> Rat(0, 1)]

\* calculateTempoAnalysis, lines 1252-1259.
TempoAnalysisTooFewBeats ==
    /\ th.pc = "called"
    /\ Len(th.beats) < 2
    /\ th' = [th EXCEPT !.pc = "done", !.mainTempo = 0,
                        !.tempoConfidence = Rat(0, 1)]

\* Lines 1262-1268.
TempoAnalysisHistogram ==
    /\ th.pc = "called"
    /\ Len(th.beats) >= 2
    /\ th' = [th EXCEPT !.pc = "histogram",
                        !.tempoHistogram = createTempoHistogram(Intervals(th.beats))]

\* Line 1271.
TempoAnalysisMainTempo ==
    /\ th.pc = "histogram"
    /\ th' = [th EXCEPT !.pc = "mainTempo",
                        !.mainTempo = findMainTempo(th.tempoHistogram)]

\* Lines 1274-1286.
TempoAnalysisConfidence ==
    /\ th.pc = "mainTempo"
    /\ th' = [th EXCEPT !.pc = "done",
                        !.tempoConfidence =
                            calculateTempoConfidence(th.tempoHistogram, th.mainTempo)]

InitHistogram ==
    /\ IdleFirst /\ IdleLate /\ HistogramInit
    /\ fw = 0 /\ ps = 0 /\ ba = 0 /\ ch = 0 /\ stl = 0 /\ msh = 0 /\ sil = 0

othersHistogram == <<firstVars, lateVars, fw, ps, ba, ch, stl, msh, sil>>

NextHistogram ==
    \/ TempoAnalysisTooFewBeats /\ UNCHANGED othersHistogram
    \/ TempoAnalysisHistogram /\ UNCHANGED othersHistogram
    \/ TempoAnalysisMainTempo /\ UNCHANGED othersHistogram
    \/ TempoAnalysisConfidence /\ UNCHANGED othersHistogram

SpecHistogram == InitHistogram /\ [][NextHistogram]_vars

RECURSIVE VotesFor(_, _, _)
\* The doubled vote total of a BPM value over the intervals from k on, counted
\* from the intervals alone: a full vote for round(60/interval), half a vote
\* each for round(30/interval) and round(120/interval).
VotesFor(bpm, intervals, k) ==
    IF k > Len(intervals) THEN 0
    ELSE (IF Round(Rat(600, intervals[k])) = bpm THEN 2 ELSE 0)
         + (IF Round(Rat(300, intervals[k])) = bpm THEN 1 ELSE 0)
         + (IF Round(Rat(1200, intervals[k])) = bpm THEN 1 ELSE 0)
         + VotesFor(bpm, intervals, k + 1)

RECURSIVE TotalVotes(_, _)
\* The doubled total of the votes that fall in [60,200].
TotalVotes(intervals, k) ==
    IF k > Len(intervals) THEN 0
    ELSE (IF Round(Rat(600, intervals[k])) \in 60..200 THEN 2 ELSE 0)
         + (IF Round(Rat(300, intervals[k])) \in 60..200 THEN 1 ELSE 0)
         + (IF Round(Rat(1200, intervals[k])) \in 60..200 THEN 1 ELSE 0)
         + TotalVotes(intervals, k + 1)

\* C17: with at least 2 beats, mainTempo is 0 or a BPM value of [60,200]
\* whose vote total is maximal among the values of [60,200], and
\* tempoConfidence is that value's votes over all votes cast in [60,200]
\* (0 when there are none), hence in [0,1].
C17_HistogramMode ==
    (th.pc = "done" /\ Len(th.beats) >= 2) =>
        LET iv == Intervals(th.beats)
            total == TotalVotes(iv, 1)
            votes == VotesFor(th.mainTempo, iv, 1)
        IN  /\ \/ th.mainTempo = 0
              \/ /\ th.mainTempo >= 60 /\ th.mainTempo <= 200
                 /\ votes > 0
                 /\ \A b \in 60..200 : VotesFor(b, iv, 1) <= votes
            /\ th.mainTempo = 0 => th.tempoConfidence.num = 0
            /\ th.mainTempo # 0 =>
                  total > 0 /\ RatEq(th.tempoConfidence, Rat(votes, total))
            /\ RatLeq(Rat(0, 1), th.tempoConfidence)
            /\ RatLeq(th.tempoConfidence, Rat(1, 1))
            /\ th.tempoConfidence.den > 0

C17_Witness ==
    /\ th.pc = "done"
    /\ Len(th.beats) = 4
    /\ th.mainTempo = 120
    /\ Len(th.tempoHistogram) >= 3
    /\ th.tempoConfidence.num < th.tempoConfidence.den
    /\ \E k \in 1..Len(th.tempoHistogram) :
          th.tempoHistogram[k][1] # 120 /\ th.tempoHistogram[k][2] = 3

(***************************************************************************)
(* Part 9: calculateChromaFromFFT (audio/chromaAnalysis.js)                *)
(*   FFT bins are pairs <<real, imag>> of integers with an integer         *)
(*   magnitude; sampleRate and fftSize are chosen so that every bin        *)
(*   frequency is an integer number of Hz.  A chroma entry after           *)
(*   normalisation is the rational num/den; a den of 0 stands for the NaN  *)
(*   of 0/0.                                                               *)
(***************************************************************************)

\* <<sampleRate, fftSize>> pairs tried: 80 Hz and 500 Hz per bin.
ChromaConfigs == {<<1280, 16>>, <<8000, 16>>}

\* Values of an FFT bin tried, of magnitude 0, 2 and 5.
BinValues == {<<0, 0>>, <<0, -2>>, <<3, 4>>}

\* Math.sqrt of a perfect square.
ISqrt(n) == CHOOSE r \in 0..n : r * r = n

\* MidiBoundaries[k] is the least integer frequency f with
\* 69 + 12 * log2(f / 440) >= 38 + k - 0.5, for the notes 39..96.
MidiBoundaries ==
    <<76, 81, 85, 90, 96, 101, 107, 114, 120, 128, 135, 143, 152, 161, 170,
      180, 191, 202, 214, 227, 240, 255, 270, 286, 303, 321, 340, 360, 381,
      404, 428, 453, 480, 509, 539, 571, 605, 641, 679, 719, 762, 807, 855,
      906, 960, 1017, 1078, 1142, 1210, 1281, 1358, 1438, 1524, 1614, 1710,
      1812, 1920, 2034>>

\* Math.round(69 + 12 * Math.log2(freq / 440)) for an integer freq in
\* [80, 2000].
RoundedMidiNote(freq) ==
    38 + (CHOOSE k \in 1..(Len(MidiBoundaries) - 1) :
             MidiBoundaries[k] <= freq /\ freq < MidiBoundaries[k + 1])

\* freq >= 80 && freq <= 2000
InMusicalRange(freq) == freq >= 80 /\ freq <= 2000

\* The chroma index of bin i, lines 165-176.
NormalizedChromaIndex(freq) == ((RoundedMidiNote(freq) % 12) + 12) % 12

RECURSIVE AccumulateChroma(_, _, _, _, _)
\* The loop of lines 164-180 from bin i on; chroma is indexed 1..12 for the
\* chroma indices 0..11.
AccumulateChroma(fftBins, sampleRate, fftSize, i, chroma) ==
    IF 2 * i >= Len(fftBins) THEN chroma
    ELSE LET freq == (i * sampleRate) \div fftSize
             bin == At(fftBins, i)
             magnitude == ISqrt(bin[1] * bin[1] + bin[2] * bin[2])
         IN  AccumulateChroma(fftBins, sampleRate, fftSize, i + 1,
                IF InMusicalRange(freq)
                THEN [chroma EXCEPT ![NormalizedChromaIndex(freq) + 1] =
                                        @ + magnitude]
                ELSE chroma)

NormalizeChroma_NoGuard(chroma) ==
    LET maxChroma == MaxOf(chroma, Len(chroma))
    IN  [c \in 1..Len(chroma) |-> Rat(chroma[c], maxChroma)]

\* Lines 183-188.
NormalizeChroma(chroma) ==
    LET maxChroma == MaxOf(chroma, Len(chroma))
    IN  IF maxChroma > 0
        THEN [c \in 1..Len(chroma) |-> Rat(chroma[c], maxChroma)]
        ELSE [c \in 1..12 |-> Rat(0, 1)]

ChromaInit ==
    \E cfg \in ChromaConfigs :
      \E inner \in [1..(cfg[2] \div 2 - 1) -> BinValues] :
        ch = [sampleRate |-> cfg[1], fftSize |-> cfg[2],
              \* the DC bin and the upper half of the spectrum carry energy
              \* and are never read
              fft |-> [b \in 1..cfg[2] |->
                          IF b - 1 \in DOMAIN inner THEN inner[b - 1]
                          ELSE <<3, 4>>],
              chroma |-> <<>>, result |-> <<>>, pc |-> "called"]

\* Lines 160-180.
ChromaAccumulate ==
    /\ ch.pc = "called"
    /\ ch' = [ch EXCEPT
                !.pc = "accumulated",
                !.chroma = AccumulateChroma(ch.fft, ch.sampleRate, ch.fftSize,
                                            1, [c \in 1..12 |-> 0])]

\* Lines 183-188.
ChromaNormalize ==
    /\ ch.pc = "accumulated"
    /\ ch' = [ch EXCEPT !.pc = "done", !.result = NormalizeChroma(ch.chroma)]

InitChroma ==
    /\ IdleFirst /\ IdleLate /\ ChromaInit
    /\ fw = 0 /\ ps = 0 /\ ba = 0 /\ th = 0 /\ stl = 0 /\ msh = 0 /\ sil = 0

othersChroma == <<firstVars, lateVars, fw, ps, ba, th, stl, msh, sil>>

NextChroma ==
    \/ ChromaAccumulate /\ UNCHANGED othersChroma
    \/ ChromaNormalize /\ UNCHANGED othersChroma

SpecChroma == InitChroma /\ [][NextChroma]_vars

\* Bins 1..fft.length/2-1 whose frequency lies in [80, 2000] Hz all have
\* magnitude 0.
NoEnergyInRange ==
    \A i \in 1..(Len(ch.fft) \div 2 - 1) :
        LET freq == (i * ch.sampleRate) \div ch.fftSize
        IN  (freq >= 80 /\ freq <= 2000) => At(ch.fft, i) = <<0, 0>>

\* C15: the chroma vector has 12 entries, each a number in [0,1] (never NaN),
\* and it is the zero vector when no bin of the 80-2000 Hz range has energy.
C15_ChromaFrame ==
    ch.pc = "done" =>
        /\ Len(ch.result) = 12
        /\ \A c \in 1..12 : /\ ch.result[c].den > 0
                            /\ 0 <= ch.result[c].num
                            /\ ch.result[c].num <= ch.result[c].den
        /\ NoEnergyInRange => \A c \in 1..12 : ch.result[c].num = 0

C15_Witness ==
    /\ ch.pc = "done"
    /\ ch.sampleRate = 8000
    /\ \E c \in 1..12 : ch.result[c].num = ch.result[c].den
    /\ \E c \in 1..12 : 0 < ch.result[c].num /\ ch.result[c].num < ch.result[c].den
    /\ At(ch.fft, 5) # <<0, 0>>

(***************************************************************************)
(* Part 11: exportSTL (utils/stlExporter.js)                               *)
(*   A coordinate is an integer number of 10^-7 units, so that toFixed(6)  *)
(*   has something to round; a printed coordinate is an integer number of  *)
(*   10^-6 units.  The STL text is the sequence of its lines.              *)
(***************************************************************************)
MaxTriangles == 2       \* triangles per mesh tried

\* The vertices meshes are built from: <<x, y, z>> in 10^-7 units.
VertexPool == <<  <<0, 15, -24>>, <<40, 0, 15>>, <<-24, 44, 0>>  >>

\* geometry.index absent
NoIndex == <<"none">>

\* exportSTL(null, ...): no mesh at all
NullMesh == [vertices |-> <<>>, indices |-> <<"null">>]

\* x.toFixed(6): the nearest multiple of 10^-6, a tie going away from zero.
ToFixed6(x) == IF x >= 0 THEN (x + 5) \div 10 ELSE 0 - ((5 - x) \div 10)

\* subVectors(v2, v1).cross(subVectors(v3, v1)), before normalize().
CrossProduct(v1, v2, v3) ==
    LET a == <<v2[1] - v1[1], v2[2] - v1[2], v2[3] - v1[3]>>
        b == <<v3[1] - v1[1], v3[2] - v1[2], v3[3] - v1[3]>>
    IN  <<a[2] * b[3] - a[3] * b[2],
          a[3] * b[1] - a[1] * b[3],
          a[1] * b[2] - a[2] * b[1]>>

\* new THREE.Vector3(vertices[a], vertices[a + 1], vertices[a + 2])
Vector3At(vertices, a) == <<At(vertices, a), At(vertices, a + 1), At(vertices, a + 2)>>

VertexLine(v) ==
    [kind |-> "vertex", x |-> ToFixed6(v[1]), y |-> ToFixed6(v[2]),
     z |-> ToFixed6(v[3])]

\* createTriangleString(vertices, a, b, c): its seven lines.  The facet line
\* carries the direction of the normal; its normalisation is not computed.
createTriangleString(vertices, a, b, c) ==
    LET v1 == Vector3At(vertices, a)
        v2 == Vector3At(vertices, b)
        v3 == Vector3At(vertices, c)
    IN  << [kind |-> "facet normal", direction |-> CrossProduct(v1, v2, v3)],
           [kind |-> "outer loop"],
           VertexLine(v1), VertexLine(v2), VertexLine(v3),
           [kind |-> "endloop"],
           [kind |-> "endfacet"] >>

IndexedCorner_NoScale(indices, i, c) == At(indices, i + c)

\* indices[i + c] * 3, lines 20-22
IndexedCorner(indices, i, c) == At(indices, i + c) * 3

RECURSIVE Flatten(_)
Flatten(vs) == IF vs = <<>> THEN <<>> ELSE Head(vs) \o Flatten(Tail(vs))

\* The meshes tried: indexed ones over the three pool vertices, and
\* non-indexed ones listing three vertices per triangle.
STLMeshes ==
    {[vertices |-> Flatten(VertexPool), indices |-> ix] :
        ix \in UNION {[1..(3 * t) -> 0..2] : t \in 0..MaxTriangles}}
    \cup
    {[vertices |-> Flatten([k \in 1..Len(pick) |-> VertexPool[pick[k]]]),
      indices |-> NoIndex] :
        pick \in UNION {[1..(3 * t) -> 1..3] : t \in 0..MaxTriangles}}

STLInit ==
    \E m \in STLMeshes \cup {NullMesh} :
        stl = [mesh |-> m, tabType |-> "basic", i |-> 0, stlString |-> <<>>,
               downloaded |-> <<>>, returned |-> "none", pc |-> "called"]

\* Lines 5-8.
ExportNoMesh ==
    /\ stl.pc = "called"
    /\ stl.mesh = NullMesh
    /\ stl' = [stl EXCEPT !.pc = "done", !.returned = "false"]

\* Lines 11-15.
ExportHeader ==
    /\ stl.pc = "called"
    /\ stl.mesh # NullMesh
    /\ stl' = [stl EXCEPT
                 !.pc = "loop", !.i = 0,
                 !.stlString = << [kind |-> "solid", name |-> stl.tabType] >>]

\* One iteration of the loop of lines 19-26.
ExportIndexedTriangle ==
    /\ stl.pc = "loop"
    /\ stl.mesh.indices # NoIndex
    /\ stl.i < Len(stl.mesh.indices)
    /\ stl' = [stl EXCEPT
                 !.i = @ + 3,
                 !.stlString = @ \o createTriangleString(stl.mesh.vertices,
                                      IndexedCorner(stl.mesh.indices, stl.i, 0),
                                      IndexedCorner(stl.mesh.indices, stl.i, 1),
                                      IndexedCorner(stl.mesh.indices, stl.i, 2))]

\* One iteration of the loop of lines 29-32.
ExportPlainTriangle ==
    /\ stl.pc = "loop"
    /\ stl.mesh.indices = NoIndex
    /\ stl.i < Len(stl.mesh.vertices)
    /\ stl' = [stl EXCEPT
                 !.i = @ + 9,
                 !.stlString = @ \o createTriangleString(stl.mesh.vertices,
                                      stl.i, stl.i + 3, stl.i + 6)]

\* Lines 35-41: the footer, the download and the return.
ExportFooter ==
    /\ stl.pc = "loop"
    /\ stl.i >= (IF stl.mesh.indices # NoIndex THEN Len(stl.mesh.indices)
                 ELSE Len(stl.mesh.vertices))
    /\ LET text == Append(stl.stlString,
                          [kind |-> "endsolid", name |-> stl.tabType])
       IN  stl' = [stl EXCEPT !.pc = "done", !.stlString = text,
                              !.downloaded = text, !.returned = "true"]

InitSTL ==
    /\ IdleFirst /\ IdleLate /\ STLInit
    /\ fw = 0 /\ ps = 0 /\ ba = 0 /\ ch = 0 /\ th = 0 /\ msh = 0 /\ sil = 0

othersSTL == <<firstVars, lateVars, fw, ps, ba, ch, th, msh, sil>>

NextSTL ==
    \/ ExportNoMesh /\ UNCHANGED othersSTL
    \/ ExportHeader /\ UNCHANGED othersSTL
    \/ ExportIndexedTriangle /\ UNCHANGED othersSTL
    \/ ExportPlainTriangle /\ UNCHANGED othersSTL
    \/ ExportFooter /\ UNCHANGED othersSTL

SpecSTL == InitSTL /\ [][NextSTL]_vars

\* Coordinate c (1..3) of corner k (0..2) of triangle t (0-based) of a mesh.
TriangleCoordinate(m, t, k, c) ==
    IF m.indices # NoIndex
    THEN m.vertices[3 * m.indices[3 * t + k + 1] + c]
    ELSE m.vertices[9 * t + 3 * k + c]

\* A printed coordinate p (10^-6 units) is x (10^-7 units) to six decimals.
PrintedAs(x, p) == 10 * p - x <= 5 /\ x - 10 * p <= 5

\* C18: the exported text is the solid header, then for every triangle of
\* the mesh one block facet / outer loop / three vertex lines / endloop /
\* endfacet whose vertex lines are the triangle's corners in order, to six
\* decimals, then the endsolid footer.
C18_OneFacetPerTriangle ==
    (stl.pc = "done" /\ stl.returned = "true") =>
        LET m == stl.mesh
            out == stl.downloaded
            T == IF m.indices # NoIndex THEN Len(m.indices) \div 3
                 ELSE Len(m.vertices) \div 9
        IN  /\ Len(out) = 7 * T + 2
            /\ out[1].kind = "solid"
            /\ out[Len(out)].kind = "endsolid"
            /\ \A t \in 0..(T - 1) :
                  /\ out[7 * t + 2].kind = "facet normal"
                  /\ out[7 * t + 3].kind = "outer loop"
                  /\ \A k \in 0..2 :
                        LET line == out[7 * t + 4 + k]
                        IN  /\ line.kind = "vertex"
                            /\ PrintedAs(TriangleCoordinate(m, t, k, 1), line.x)
                            /\ PrintedAs(TriangleCoordinate(m, t, k, 2), line.y)
                            /\ PrintedAs(TriangleCoordinate(m, t, k, 3), line.z)
                  /\ out[7 * t + 7].kind = "endloop"
                  /\ out[7 * t + 8].kind = "endfacet"

C18_Witness ==
    /\ stl.pc = "done"
    /\ stl.returned = "true"
    /\ stl.mesh.indices = <<2, 0, 1, 1, 0, 2>>
    /\ Len(stl.downloaded) = 16
    /\ stl.downloaded[4] = [kind |-> "vertex", x |-> -2, y |-> 4, z |-> 0]
    /\ stl.downloaded[5] = [kind |-> "vertex", x |-> 0, y |-> 2, z |-> -2]

(***************************************************************************)
(* Part 12: validateMeshData, the mesh builders and createMeshForTab       *)
(*   (mesh/meshGenerator.js, mesh/frequencyMesh.js, mesh/spectralMesh.js,  *)
(*   chromaMesh.js)                                                        *)
(*   analysisData is the set of its fields that are present; a vertex      *)
(*   array is a sequence of "finite" / "NaN" entries or Undefined.         *)
(***************************************************************************)
MaxAmplitudeLen == 3    \* entries of analysisData.amplitude tried
MaxVertexLen == 4       \* entries of a vertex array handed to validateMeshData

Rings == 2              \* params.rings
Segments == 3           \* params.segments

Undefined == <<"undefined">>

MeshFields == {"amplitude", "beats", "chromaFeatures", "frequencyBands",
               "spectralFeatures", "spectrogram", "tempoAnalysis"}

MeshBuilders == {"createBasicMesh", "createBeatsMesh", "createChromaMesh",
                 "createFrequencyMesh", "createSpectralMesh",
                 "createSpectrogramMesh", "createTempoMesh"}

MeshTabs == {"basic", "chroma", "beats", "frequency", "spectral", "tempo",
             "spectrogram"}

\* The fields a builder tests in its first statement.
RequiredFields(builder) ==
    CASE builder = "createBasicMesh" -> {"amplitude"}
      [] builder = "createBeatsMesh" -> {"beats"}
      [] builder = "createChromaMesh" -> {"chromaFeatures"}
      [] builder = "createFrequencyMesh" -> {"frequencyBands"}
      [] builder = "createSpectralMesh" -> {"spectralFeatures"}
      [] builder = "createSpectrogramMesh" -> {"spectrogram"}
      [] builder = "createTempoMesh" -> {"beats", "tempoAnalysis"}

\* The Error thrown by that statement: `No ${what} available for ${mesh}`.
GuardError(builder) ==
    CASE builder = "createBasicMesh" ->
            [what |-> "amplitude data", mesh |-> "basic mesh"]
      [] builder = "createBeatsMesh" ->
            [what |-> "beat data", mesh |-> "beats mesh"]
      [] builder = "createChromaMesh" ->
            [what |-> "chroma features", mesh |-> "chroma mesh"]
      [] builder = "createFrequencyMesh" ->
            [what |-> "frequency band data", mesh |-> "frequency mesh"]
      [] builder = "createSpectralMesh" ->
            [what |-> "spectral features", mesh |-> "spectral mesh"]
      [] builder = "createSpectrogramMesh" ->
            [what |-> "spectrogram data", mesh |-> "spectrogram mesh"]
      [] builder = "createTempoMesh" ->
            [what |-> "tempo data", mesh |-> "tempo mesh"]

NoError == [what |-> "none", mesh |-> "none"]

\* The Errors of validateMeshData.
ValidationError(text) == [what |-> text, mesh |-> "validateMeshData"]

\* validateMeshData(vertices, indices, colors) of meshGenerator.js, with the
\* lengths of indices and colors; NoError stands for `return true`.
validateMeshData(vertices, indexCount, colorCount) ==
    IF vertices = Undefined \/ Len(vertices) = 0
    THEN ValidationError("Vertices array is empty or undefined")
    ELSE IF Len(vertices) % 3 # 0
    THEN ValidationError("Vertices array length must be divisible by 3")
    ELSE IF indexCount % 3 # 0
    THEN ValidationError("Indices array length must be divisible by 3")
    ELSE IF colorCount # Len(vertices)
    THEN ValidationError("Colors array length must match vertices array length")
    ELSE IF \E i \in 1..Len(vertices) : vertices[i] # "finite"
    THEN ValidationError("Invalid vertex value")
    ELSE NoError

\* The rings createBasicMesh lays out for an amplitude array of that length.
ActualRings(amplitudeLen) ==
    LET fl == amplitudeLen \div Rings
        dataStep == IF fl > 1 THEN fl ELSE 1
    IN  amplitudeLen \div dataStep

\* The vertex array createBasicMesh hands to validateMeshData: Segments
\* vertices per ring, whose z is (i / (actualRings - 1) - 0.5) * heightScale
\* and so NaN when there is one ring, then the two cap centres of addEndCaps.
BasicVertices(amplitudeLen) ==
    LET rings == ActualRings(amplitudeLen)
        z == IF rings = 1 THEN "NaN" ELSE "finite"
    IN  [k \in 1..(3 * Segments * rings + 6) |->
            IF k <= 3 * Segments * rings /\ k % 3 = 0 THEN z ELSE "finite"]

\* The index count of createBasicMesh: two triangles per quad between
\* consecutive rings, and Segments triangles per cap.
BasicIndexCount(amplitudeLen) ==
    LET rings == ActualRings(amplitudeLen)
    IN  (IF rings > 1 THEN 6 * Segments * (rings - 1) ELSE 0) + 6 * Segments

\* switch (tabId) of createMeshForTab: every case but 'basic' is commented
\* out, and the default is the basic builder as well.
BuilderForTab(tabId) ==
    IF tabId = "basic" THEN "createBasicMesh" ELSE "createBasicMesh"

VertexArrays ==
    {Undefined} \cup UNION {[1..n -> {"finite", "NaN"}] : n \in 0..MaxVertexLen}

\* The calls tried: createMeshForTab for a tab, a builder called directly,
\* and validateMeshData called directly.
MeshInit ==
    \/ \E tab \in MeshTabs, data \in SUBSET MeshFields, n \in 0..MaxAmplitudeLen :
          msh = [entry |-> "createMeshForTab", tabId |-> tab, data |-> data,
                 amplitudeLen |-> IF "amplitude" \in data THEN n ELSE 0,
                 builder |-> "none", vertices |-> Undefined, indexCount |-> 0,
                 colorCount |-> 0, thrown |-> NoError, caught |-> NoError,
                 returned |-> "none", pc |-> "called"]
    \/ \E b \in MeshBuilders, data \in SUBSET MeshFields, n \in 0..MaxAmplitudeLen :
          msh = [entry |-> b, tabId |-> "none", data |-> data,
                 amplitudeLen |-> IF "amplitude" \in data THEN n ELSE 0,
                 builder |-> b, vertices |-> Undefined, indexCount |-> 0,
                 colorCount |-> 0, thrown |-> NoError, caught |-> NoError,
                 returned |-> "none", pc |-> "builder"]
    \/ \E v \in VertexArrays, ic \in {0, 2, 3}, cc \in 0..MaxVertexLen :
          msh = [entry |-> "validateMeshData", tabId |-> "none", data |-> {},
                 amplitudeLen |-> 0,
                 builder |-> "none", vertices |-> v, indexCount |-> ic,
                 colorCount |-> cc, thrown |-> NoError, caught |-> NoError,
                 returned |-> "none", pc |-> "validate"]

\* Where an Error thrown inside a builder goes: to the catch of
\* createMeshForTab, or out of a builder that was called directly.
AfterThrow(m, error) ==
    IF m.entry = "createMeshForTab"
    THEN [m EXCEPT !.thrown = error, !.pc = "catch"]
    ELSE [m EXCEPT !.thrown = error, !.returned = "threw", !.pc = "done"]

\* Lines 8-36 of createMeshForTab.
MeshForTabDispatch ==
    /\ msh.pc = "called"
    /\ msh' = [msh EXCEPT !.builder = BuilderForTab(msh.tabId), !.pc = "builder"]

\* The first statement of a builder, a required field being absent.
BuilderGuardThrows ==
    /\ msh.pc = "builder"
    /\ ~(RequiredFields(msh.builder) \subseteq msh.data)
    /\ msh' = AfterThrow(msh, GuardError(msh.builder))

\* createBasicMesh past its guard: the geometry and validateMeshData.
BasicMeshBuild ==
    /\ msh.pc = "builder"
    /\ msh.builder = "createBasicMesh"
    /\ RequiredFields(msh.builder) \subseteq msh.data
    /\ LET v == BasicVertices(msh.amplitudeLen)
           ic == BasicIndexCount(msh.amplitudeLen)
           m == [msh EXCEPT !.vertices = v, !.indexCount = ic,
                            !.colorCount = Len(v)]
           error == validateMeshData(v, ic, Len(v))
       IN  msh' = IF error # NoError THEN AfterThrow(m, error)
                  ELSE [m EXCEPT !.returned = "mesh", !.pc = "done"]

\* Another builder past its guard.  Its geometry is not computed: any vertex
\* array with its colours, and any index count, may reach validateMeshData.
OtherMeshBuild ==
    /\ msh.pc = "builder"
    /\ msh.builder # "createBasicMesh"
    /\ RequiredFields(msh.builder) \subseteq msh.data
    /\ \E v \in VertexArrays \ {Undefined}, ic \in {0, 3} :
          LET m == [msh EXCEPT !.vertices = v, !.indexCount = ic,
                               !.colorCount = Len(v)]
              error == validateMeshData(v, ic, Len(v))
          IN  msh' = IF error # NoError THEN AfterThrow(m, error)
                     ELSE [m EXCEPT !.returned = "mesh", !.pc = "done"]

\* validateMeshData called on its own.
ValidateDirect ==
    /\ msh.pc = "validate"
    /\ LET error == validateMeshData(msh.vertices, msh.indexCount, msh.colorCount)
       IN  msh' = IF error # NoError
                  THEN [msh EXCEPT !.thrown = error, !.returned = "threw",
                                   !.pc = "done"]
                  ELSE [msh EXCEPT !.returned = "true", !.pc = "done"]

\* Lines 38-43 of createMeshForTab: log and return createFallbackMesh().
MeshForTabCatch ==
    /\ msh.pc = "catch"
    /\ msh' = [msh EXCEPT !.caught = msh.thrown, !.returned = "fallbackMesh",
                          !.pc = "done"]

InitMesh ==
    /\ IdleFirst /\ IdleLate /\ MeshInit
    /\ fw = 0 /\ ps = 0 /\ ba = 0 /\ ch = 0 /\ th = 0 /\ stl = 0 /\ sil = 0

othersMesh == <<firstVars, lateVars, fw, ps, ba, ch, th, stl, sil>>

NextMesh ==
    \/ MeshForTabDispatch /\ UNCHANGED othersMesh
    \/ BuilderGuardThrows /\ UNCHANGED othersMesh
    \/ BasicMeshBuild /\ UNCHANGED othersMesh
    \/ OtherMeshBuild /\ UNCHANGED othersMesh
    \/ ValidateDirect /\ UNCHANGED othersMesh
    \/ MeshForTabCatch /\ UNCHANGED othersMesh

SpecMesh == InitMesh /\ [][NextMesh]_vars

\* The words by which an error message names a field of the analysis data.
FieldPhrase(field) ==
    CASE field = "amplitude" -> "amplitude data"
      [] field = "beats" -> "beat data"
      [] field = "chromaFeatures" -> "chroma features"
      [] field = "frequencyBands" -> "frequency band data"
      [] field = "spectralFeatures" -> "spectral features"
      [] field = "spectrogram" -> "spectrogram data"
      [] field = "tempoAnalysis" -> "tempo data"

\* The builder has run on analysis data lacking a field it requires.
BuilderRanWithoutField ==
    /\ msh.builder # "none"
    /\ msh.pc \in {"catch", "done"}
    /\ ~(RequiredFields(msh.builder) \subseteq msh.data)

\* The error has reached whoever called the builder.
SurfacedToBuilderCaller ==
    IF msh.entry = "createMeshForTab"
    THEN msh.pc = "catch" \/ msh.caught = msh.thrown
    ELSE msh.returned = "threw"

\* C19 (as stated): validateMeshData ends with an error whenever the vertex
\* array is empty or undefined, and a builder run on analysis data lacking a
\* field it requires ends with an error that names a field that is lacking
\* and that reaches the caller of the builder.
C19_FailFastNamed ==
    /\ (msh.pc = "done" /\ msh.entry = "validateMeshData"
          /\ (msh.vertices = Undefined \/ Len(msh.vertices) = 0))
        => /\ msh.returned = "threw"
           /\ msh.thrown = ValidationError("Vertices array is empty or undefined")
    /\ BuilderRanWithoutField
        => /\ msh.thrown # NoError
           /\ \E f \in RequiredFields(msh.builder) \ msh.data :
                 msh.thrown.what = FieldPhrase(f)
           /\ SurfacedToBuilderCaller

(***************************************************************************)
(* Part 8: analyzeBasic and smoothArray (basicAnalysis.js)                 *)
(*   The samples are 0 except for isolated pulses of height 1 or 2, at     *)
(*   least a window apart, so that the sum of squares of every window is   *)
(*   a perfect square.  An amplitude is kept as the square root of that    *)
(*   sum (the RMS times the square root of windowSize); a normalized       *)
(*   amplitude is an integer number of 1/one, where one is chosen so that  *)
(*   the division by maxAmp and the smoothing stay exact.                  *)
(***************************************************************************)
MaxBasicLen == 10       \* samples per buffer

BasicSampleRates == {40, 80}

\* Math.max() of no arguments
NegInfinity == -1

\* Math.floor(sampleRate * 0.1)
BasicWindowSize(sampleRate) == sampleRate \div 10

\* Math.floor(windowSize / 4)
BasicHopSize(sampleRate) == BasicWindowSize(sampleRate) \div 4

BasicBuffers(sampleRate) ==
    UNION {{s \in [1..n -> 0..2] :
               \A p, q \in 1..n :
                  (p < q /\ s[p] # 0 /\ s[q] # 0)
                      => q - p >= BasicWindowSize(sampleRate)} :
           n \in 0..MaxBasicLen}

RECURSIVE PowerOfFive(_)
PowerOfFive(k) == IF k <= 0 THEN 1 ELSE 5 * PowerOfFive(k - 1)

\* The unit of the normalized amplitudes of a sequence of n frames.
FixedOne(n) == 2 * PowerOfFive(n - 2)

\* Math.sqrt(sum / windowSize), times the square root of windowSize.
FrameAmplitude(channelData, i, windowSize) ==
    ISqrt(SumRange([j \in 1..Len(channelData) |->
                       channelData[j] * channelData[j]], i, i + windowSize))

\* Math.max(...amplitudes)
MaxAmplitude(amplitudes) ==
    IF Len(amplitudes) = 0 THEN NegInfinity
    ELSE MaxOf(amplitudes, Len(amplitudes))

\* maxAmp > 0 ? amplitudes.map(amp => amp / maxAmp) : amplitudes
NormalizeAmplitudes(amplitudes, maxAmp) ==
    IF maxAmp > 0
    THEN [j \in 1..Len(amplitudes) |->
             (amplitudes[j] * FixedOne(Len(amplitudes))) \div maxAmp]
    ELSE amplitudes

\* smoothed[i] * (1 - factor) + (smoothed[i - 1] + smoothed[i + 1]) * factor * 0.5
\* with factor 0.8, read from the array being written.
SmoothEntry(smoothed, i) ==
    (At(smoothed, i) + 2 * At(smoothed, i - 1) + 2 * At(smoothed, i + 1)) \div 5

SmoothedAfter_OneToTheLeft(smoothed, i) ==
    [smoothed EXCEPT ![i] = SmoothEntry(smoothed, i)]

\* The assignment smoothed[i] = ... of line 56 (index i is 0-based).
SmoothedAfter(smoothed, i) ==
    [smoothed EXCEPT ![i + 1] = SmoothEntry(smoothed, i)]

BasicInit ==
    \E sr \in BasicSampleRates :
    \E data \in BasicBuffers(sr) :
        ba = [channelData |-> data, sampleRate |-> sr, i |-> 0,
              amplitudes |-> <<>>, maxAmp |-> 0, one |-> 1,
              normalizedAmplitudes |-> <<>>, smoothed |-> <<>>, k |-> 0,
              amplitude |-> <<>>, maxAmplitude |-> 0, pc |-> "frames"]

\* One iteration of the loop of lines 14-20.
BasicFrame ==
    /\ ba.pc = "frames"
    /\ ba.i < Len(ba.channelData) - BasicWindowSize(ba.sampleRate)
    /\ ba' = [ba EXCEPT
                !.amplitudes = Append(@, FrameAmplitude(ba.channelData, ba.i,
                                           BasicWindowSize(ba.sampleRate))),
                !.i = @ + BasicHopSize(ba.sampleRate)]

\* Lines 23-26, and the copy made by smoothArray (line 54).
BasicNormalize ==
    /\ ba.pc = "frames"
    /\ ba.i >= Len(ba.channelData) - BasicWindowSize(ba.sampleRate)
    /\ LET maxAmp == MaxAmplitude(ba.amplitudes)
           normalized == NormalizeAmplitudes(ba.amplitudes, maxAmp)
       IN  ba' = [ba EXCEPT
                    !.maxAmp = maxAmp,
                    !.one = IF maxAmp > 0 THEN FixedOne(Len(ba.amplitudes)) ELSE 1,
                    !.normalizedAmplitudes = normalized,
                    !.smoothed = normalized,
                    !.k = 1,
                    !.pc = "smooth"]

\* One iteration of the loop of lines 55-58.
BasicSmooth ==
    /\ ba.pc = "smooth"
    /\ ba.k < Len(ba.smoothed) - 1
    /\ ba' = [ba EXCEPT
                !.smoothed = SmoothedAfter(ba.smoothed, ba.k),
                !.k = @ + 1]

\* Line 59 of smoothArray and lines 31-47 of analyzeBasic.
BasicReturn ==
    /\ ba.pc = "smooth"
    /\ ba.k >= Len(ba.smoothed) - 1
    /\ ba' = [ba EXCEPT !.amplitude = ba.smoothed,
                        !.maxAmplitude = ba.maxAmp,
                        !.pc = "done"]

InitBasic ==
    /\ IdleFirst /\ IdleLate /\ BasicInit
    /\ fw = 0 /\ ps = 0 /\ ch = 0 /\ th = 0 /\ stl = 0 /\ msh = 0 /\ sil = 0

othersBasic == <<firstVars, lateVars, fw, ps, ch, th, stl, msh, sil>>

NextBasic ==
    \/ BasicFrame /\ UNCHANGED othersBasic
    \/ BasicNormalize /\ UNCHANGED othersBasic
    \/ BasicSmooth /\ UNCHANGED othersBasic
    \/ BasicReturn /\ UNCHANGED othersBasic

SpecBasic == InitBasic /\ [][NextBasic]_vars

AllZeroBuffer == \A j \in 1..Len(ba.channelData) : ba.channelData[j] = 0

\* C14 (as stated): when analyzeBasic has returned for a buffer that is not
\* all zeros and gave at least one frame, the largest entry of the returned
\* amplitude sequence is 1.0, and for an all-zero buffer every entry is 0.
C14_NormalizedMaxIsOne ==
    (ba.pc = "done") =>
        /\ (~AllZeroBuffer /\ Len(ba.amplitude) >= 1)
              => /\ \A j \in 1..Len(ba.amplitude) : ba.amplitude[j] <= ba.one
                 /\ \E j \in 1..Len(ba.amplitude) : ba.amplitude[j] = ba.one
        /\ AllZeroBuffer
              => \A j \in 1..Len(ba.amplitude) : ba.amplitude[j] = 0

\* C25: smoothArray runs once over the normalized amplitudes: every step
\* rewrites one interior entry of its own copy and moves on by one, the
\* returned sequence has the length of the input and the input's first and
\* last entries, and the input sequence is left as it was.
C25_SmoothingPass ==
    /\ [](ba.pc = "done" =>
            /\ Len(ba.amplitude) = Len(ba.normalizedAmplitudes)
            /\ ba.k >= Len(ba.normalizedAmplitudes) - 1
            /\ ba.normalizedAmplitudes =
                   NormalizeAmplitudes(ba.amplitudes, ba.maxAmp)
            /\ Len(ba.amplitude) >= 1 =>
                   /\ ba.amplitude[1] = ba.normalizedAmplitudes[1]
                   /\ ba.amplitude[Len(ba.amplitude)] =
                          ba.normalizedAmplitudes[Len(ba.amplitude)])
    /\ [][ba.pc = "smooth" =>
            /\ ba'.normalizedAmplitudes = ba.normalizedAmplitudes
            /\ ba'.amplitudes = ba.amplitudes
            /\ Len(ba'.smoothed) = Len(ba.smoothed)
            /\ ba'.pc = "smooth" =>
                   /\ ba'.k = ba.k + 1
                   /\ ba.k \in 1..(Len(ba.smoothed) - 2)
                   /\ \A j \in 1..Len(ba.smoothed) :
                          j # ba.k + 1 => ba'.smoothed[j] = ba.smoothed[j]
            /\ ba'.pc = "done" => ba'.amplitude = ba.smoothed]_vars

\* A returned sequence whose interior the pass has changed, between
\* endpoints that differ from their neighbours.
C25_Witness ==
    /\ ba.pc = "done"
    /\ Len(ba.amplitude) >= 4
    /\ \E j \in 2..(Len(ba.amplitude) - 1) :
           ba.amplitude[j] # ba.normalizedAmplitudes[j]
    /\ ba.normalizedAmplitudes[1] # ba.normalizedAmplitudes[2]
    /\ ba.amplitude[1] # ba.amplitude[2]

(***************************************************************************)
(* Part 7: one pass of each analyzer over a buffer (basicAnalysis.js,      *)
(*   chromaAnalysis.js, frequencyAnalysis.js, spectralAnalysis.js,         *)
(*   beatAnalysis.js, tempoAnalysis.js)                                    *)
(*   A buffer is its length, its sample rate and whether all its samples   *)
(*   are zero.  A per-frame sequence is its length; a field of the result  *)
(*   is "empty", "zero", "NaN", "-Infinity", or "data" for a value that    *)
(*   depends on the samples of a buffer that is not all zero.              *)
(***************************************************************************)
PassAnalyzers == {"basic", "chroma", "frequency", "spectral", "beats", "tempo"}

PassRates == {8000, 22050, 44100, 48000}

PassLengths == {0, 1, 300, 1024, 2048, 4096, 8000, 22050, 44100, 48000}

\* fftSize of analyzeChroma, analyzeFrequency and analyzeSpectral
FrameFFTSize == 2048

\* fftSize of detectOnsets and calculateOnsetDetectionFunction
OnsetFFTSize == 1024

\* Math.floor(sampleRate * 0.046)
BeatWindowSize(sampleRate) == (sampleRate * 46) \div 1000

\* The frame loops an analyzer runs, in order.
NumLoops(analyzer) == IF analyzer = "beats" THEN 2 ELSE 1

LoopBound_WholeSecond(analyzer, loop, length, sampleRate) == length - sampleRate

\* The bound of `for (let i = 0; i < channelData.length - size; i += hopSize)`.
LoopBound(analyzer, loop, length, sampleRate) ==
    CASE analyzer = "basic" -> length - BasicWindowSize(sampleRate)
      [] analyzer \in {"chroma", "frequency", "spectral"} -> length - FrameFFTSize
      [] analyzer = "beats" /\ loop = 1 -> length - BeatWindowSize(sampleRate)
      [] analyzer = "beats" /\ loop = 2 -> length - OnsetFFTSize
      [] analyzer = "tempo" -> length - OnsetFFTSize

LoopHop(analyzer, sampleRate) ==
    CASE analyzer \in {"basic", "tempo"} -> BasicWindowSize(sampleRate) \div 4
      [] analyzer \in {"chroma", "frequency", "spectral"} -> FrameFFTSize \div 2
      [] analyzer = "beats" -> BeatWindowSize(sampleRate) \div 4

FrequencyBandNames == {"bass", "lowMid", "mid", "highMid", "treble"}

SpectralFeatureNames ==
    {"centroid", "bandwidth", "rolloff", "flux", "flatness", "crest",
     "energy", "slope", "kurtosis", "skewness"}

\* The sequences one iteration of a loop pushes an entry to.
Pushed(analyzer, loop) ==
    CASE analyzer = "basic" -> {"amplitude"}
      [] analyzer = "chroma" -> {"chromaFeatures"}
      [] analyzer = "frequency" ->
            FrequencyBandNames \cup {"timeStamps", "fullSpectrum"}
      [] analyzer = "spectral" -> SpectralFeatureNames \cup {"timeStamps"}
      [] analyzer = "beats" /\ loop = 1 -> {"energyData"}
      [] analyzer = "beats" /\ loop = 2 -> {"onsetData"}
      [] analyzer = "tempo" -> {"onsetFunction"}

SequenceNames(analyzer) ==
    UNION {Pushed(analyzer, loop) : loop \in 1..NumLoops(analyzer)}

\* The sequence the summary of an analyzer is computed from.
MainSequence(analyzer) ==
    CASE analyzer = "basic" -> "amplitude"
      [] analyzer = "chroma" -> "chromaFeatures"
      [] analyzer = "frequency" -> "bass"
      [] analyzer = "spectral" -> "centroid"
      [] analyzer = "beats" -> "energyData"
      [] analyzer = "tempo" -> "onsetFunction"

\* A sequence of n frame values.
SequenceValue(n, silent) ==
    IF n = 0 THEN "empty" ELSE IF silent THEN "zero" ELSE "data"

\* A value computed from n >= 1 frame values.
Computed(silent) == IF silent THEN "zero" ELSE "data"

\* The beat list of findBeats and detectBeatsFromOnsets: the peak loop runs
\* over localWindow <= i < n - localWindow, and no frame of an all-zero
\* buffer passes the threshold test.
BeatsValue(n, sampleRate, hopSize, silent) ==
    IF silent \/ n - (sampleRate \div hopSize) <= sampleRate \div hopSize
    THEN "empty" ELSE "data"

\* The fields of the result record of a pass with n frames in its main
\* sequence, besides the per-frame sequences and the echoed parameters.
Summary(analyzer, n, sampleRate, silent) ==
    CASE analyzer = "basic" ->
            [maxAmplitude |-> IF n = 0 THEN "-Infinity" ELSE Computed(silent)]
      [] analyzer = "chroma" -> [frames |-> SequenceValue(n, silent)]
      [] analyzer = "frequency" ->
            [dynamics |-> IF n = 0 THEN "empty" ELSE Computed(silent),
             balanceAbsolute |-> IF n = 0 THEN "NaN" ELSE Computed(silent),
             balanceRelative |-> IF n = 0 THEN "zero" ELSE Computed(silent),
             bassToTrebleRatio |-> IF n = 0 THEN "zero" ELSE Computed(silent),
             midDominance |-> IF n = 0 \/ silent THEN "NaN" ELSE "data",
             totalEnergy |-> IF n = 0 THEN "NaN" ELSE Computed(silent),
             peaks |-> IF n < 3 \/ silent THEN "empty" ELSE "data"]
      [] analyzer = "spectral" ->
            [statistics |-> Computed(silent),
             events |-> IF n < 3 \/ silent THEN "empty" ELSE "data",
             evolution |-> IF n <= 40 THEN "empty" ELSE Computed(silent)]
      [] analyzer = "beats" ->
            LET beats == BeatsValue(n, sampleRate,
                                    LoopHop("beats", sampleRate), silent)
            IN  [beats |-> beats,
                 tempo |-> IF beats = "empty" THEN "zero" ELSE "data",
                 beatStrengths |-> beats,
                 averageBeatInterval |-> IF beats = "empty" THEN "zero" ELSE "data"]
      [] analyzer = "tempo" ->
            LET beats == BeatsValue(n, sampleRate,
                                    LoopHop("tempo", sampleRate), silent)
            IN  [beats |-> beats,
                 mainTempo |-> IF beats = "empty" THEN "zero" ELSE "data",
                 tempoConfidence |-> IF beats = "empty" THEN "zero" ELSE "data",
                 possibleTempos |-> beats,
                 beatIntervals |-> beats,
                 tempoEvolution |-> beats,
                 rhythmPatterns |-> beats,
                 rhythmComplexity |-> IF beats = "empty" THEN "zero" ELSE "data",
                 tempoChanges |-> beats]

\* data.reduce((a, b) => a + b) of calculateSpectralStatistics on no frames.
ReduceOfEmpty == "TypeError: Reduce of empty array with no initial value"

PassInit ==
    \E a \in PassAnalyzers, len \in PassLengths, sr \in PassRates :
    \E s \in (IF len = 0 THEN {TRUE} ELSE BOOLEAN) :
        ps = [analyzer |-> a, length |-> len, sampleRate |-> sr, silent |-> s,
              loop |-> 1, i |-> 0,
              seqs |-> [name \in SequenceNames(a) |-> 0],
              pc |-> "frames", outcome |-> "none", error |-> "none",
              result |-> <<>>]

\* One iteration of the current frame loop.
PassFrame ==
    /\ ps.pc = "frames"
    /\ ps.i < LoopBound(ps.analyzer, ps.loop, ps.length, ps.sampleRate)
    /\ ps' = [ps EXCEPT
                !.seqs = [name \in DOMAIN ps.seqs |->
                             IF name \in Pushed(ps.analyzer, ps.loop)
                             THEN ps.seqs[name] + 1 ELSE ps.seqs[name]],
                !.i = @ + LoopHop(ps.analyzer, ps.sampleRate)]

\* analyzeBeats: calculateEnergyWindows has returned, detectOnsets starts.
PassNextLoop ==
    /\ ps.pc = "frames"
    /\ ps.i >= LoopBound(ps.analyzer, ps.loop, ps.length, ps.sampleRate)
    /\ ps.loop < NumLoops(ps.analyzer)
    /\ ps' = [ps EXCEPT !.loop = @ + 1, !.i = 0]

\* analyzeSpectral on no frames: calculateSpectralStatistics throws.
PassThrow ==
    /\ ps.pc = "frames"
    /\ ps.i >= LoopBound(ps.analyzer, ps.loop, ps.length, ps.sampleRate)
    /\ ps.loop = NumLoops(ps.analyzer)
    /\ ps.analyzer = "spectral"
    /\ ps.seqs[MainSequence(ps.analyzer)] = 0
    /\ ps' = [ps EXCEPT !.pc = "done", !.outcome = "threw",
                        !.error = ReduceOfEmpty]

\* The summaries after the loops, and the return of the result record.
PassReturn ==
    /\ ps.pc = "frames"
    /\ ps.i >= LoopBound(ps.analyzer, ps.loop, ps.length, ps.sampleRate)
    /\ ps.loop = NumLoops(ps.analyzer)
    /\ ~(ps.analyzer = "spectral" /\ ps.seqs[MainSequence(ps.analyzer)] = 0)
    /\ ps' = [ps EXCEPT
                !.pc = "done", !.outcome = "returned",
                !.result = Summary(ps.analyzer,
                                   ps.seqs[MainSequence(ps.analyzer)],
                                   ps.sampleRate, ps.silent)]

InitPass ==
    /\ IdleFirst /\ IdleLate /\ PassInit
    /\ fw = 0 /\ ba = 0 /\ ch = 0 /\ th = 0 /\ stl = 0 /\ msh = 0 /\ sil = 0

othersPass == <<firstVars, lateVars, fw, ba, ch, th, stl, msh, sil>>

NextPass ==
    \/ PassFrame /\ UNCHANGED othersPass
    \/ PassNextLoop /\ UNCHANGED othersPass
    \/ PassThrow /\ UNCHANGED othersPass
    \/ PassReturn /\ UNCHANGED othersPass

SpecPass == InitPass /\ [][NextPass]_vars

\* The buffer is shorter than every analysis window of the analyzer.
ShorterThanWindow ==
    \A loop \in 1..NumLoops(ps.analyzer) :
        LoopBound(ps.analyzer, loop, ps.length, ps.sampleRate) < 0

\* C12 (as stated): a pass over an empty buffer, or over a buffer shorter
\* than one analysis window, returns (does not throw), with every sequence
\* empty and every other field of the result empty or zero.
C12_ShortBufferEmptyResult ==
    (ps.pc = "done" /\ ShorterThanWindow) =>
        /\ ps.outcome = "returned"
        /\ \A name \in DOMAIN ps.seqs : ps.seqs[name] = 0
        /\ \A field \in DOMAIN ps.result : ps.result[field] \in {"empty", "zero"}

\* The buffer is one second of zeros.
SilentSecond == ps.silent /\ ps.length = ps.sampleRate

C16_EqualLengths ==
    (ps.pc = "done" /\ ps.outcome = "returned") =>
        \A m, n \in DOMAIN ps.seqs : ps.seqs[m] = ps.seqs[n]

(***************************************************************************)
(* More claims about Part 1                                                *)
(***************************************************************************)

\* A step in which analyzeForTab, called without a buffer, returns.
NoBufferCallReturns ==
    /\ \E p \in CallIds : calls[p].pc = "idle" /\ calls'[p].pc = "done"
    /\ last'.op = "direct"
    /\ last'.buffer = NoBuffer

\* C29: analyzeForTab called without a buffer returns null in that same step,
\* which changes neither the cache nor the stored buffer, and no call ever
\* waits for a module or an analyzer without a buffer.
C29_NoBufferNoEffect ==
    /\ [](\A p \in CallIds : calls[p].pc = "module" => calls[p].buffer # NoBuffer)
    /\ [][NoBufferCallReturns =>
            /\ last'.ret = NullRec
            /\ ~last'.ran
            /\ ~last'.hit
            /\ analysisData' = analysisData
            /\ audioBuffer' = audioBuffer
            /\ \A q \in CallIds : calls'[q].pc = "module" => calls[q].pc = "module"]_vars

C29_Witness ==
    /\ last.outcome = "nobuffer"
    /\ last.ret = NullRec
    /\ audioBuffer # NoBuffer
    /\ \E k \in Kinds : Truthy(analysisData[k])

\* No kind has a cached entry.
CacheEmpty == \A k \in Kinds : ~Truthy(analysisData[k])

\* A step in which analyzeForTab is called on the hook with a buffer.
DirectCallWithBuffer(p) ==
    /\ calls[p].pc = "idle"
    /\ \/ calls'[p].pc = "module" /\ calls'[p].op = "direct"
       \/ /\ calls'[p].pc = "done"
          /\ last' # last
          /\ last'.op = "direct"
          /\ last'.buffer # NoBuffer

HandlerAnalysisInFlight(p) ==
    calls[p].pc = "module" /\ calls[p].op \in {"upload", "tab"}

\* C27 (as stated): isProcessing is true while an analysis started by
\* handleFileUpload or handleTabChange is in flight, and false when no
\* handler is running.
C27_ProcessingTracksInFlight ==
    /\ (\E p \in CallIds : HandlerAnalysisInFlight(p)) => isProcessing
    /\ (\A p \in CallIds : calls[p].pc \in {"idle", "done"}) => ~isProcessing

(***************************************************************************)
(* Part 15: calculateSpectralStatistics and detectSpectralEvents           *)
(*   (audio/spectralAnalysis.js)                                           *)
(*   Two of the feature sequences are followed, with small integer         *)
(*   values.  A mean is the rational num/den; a standard deviation is      *)
(*   kept as its square, and a comparison with it is made on the squares.  *)
(*   The time stamp of frame i is kept as i.                               *)
(***************************************************************************)
MaxStatLen == 6         \* frames per feature sequence
MaxStatValue == 2       \* largest feature value

StatFeatures == <<"centroid", "flux">>

RECURSIVE SumOf(_, _)
\* data.reduce((a, b) => a + b) over the first n entries of a non-empty array
SumOf(data, n) == IF n = 0 THEN 0 ELSE SumOf(data, n - 1) + data[n]

\* data.reduce((a, b) => a + b) / len
MeanOf(data) == [defined |-> TRUE, num |-> SumOf(data, Len(data)), den |-> Len(data)]

\* stats[feature]?.mean while the object literal assigned to stats[feature]
\* is still being evaluated
MeanInLiteral(data) == [defined |-> FALSE, num |-> 0, den |-> 1]

\* Math.pow(val - mean || 0, 2), times the square of mean.den: val - undefined
\* is NaN, and NaN || 0 is 0.
SquaredDeviation(val, mean) ==
    IF mean.defined
    THEN (val * mean.den - mean.num) * (val * mean.den - mean.num)
    ELSE 0

\* data.reduce((acc, val) => acc + Math.pow(val - mean, 2), 0) / len: the
\* square of Math.sqrt(...), as a rational.
VarianceOf(data, mean) ==
    [num |-> SumOf([j \in 1..Len(data) |-> SquaredDeviation(data[j], mean)],
                   Len(data)),
     den |-> mean.den * mean.den * Len(data)]

\* The mean and std entries of stats[feature].
FeatureStatistics(data) ==
    [mean |-> MeanOf(data), stdSquared |-> VarianceOf(data, MeanInLiteral(data))]

\* data[i] > threshold && data[i] > data[i - 1] && data[i] > data[i + 1]
\* with threshold = mean + 2 * std (i is 0-based).
PeakTest(data, i) ==
    LET mean == MeanOf(data)
        variance == VarianceOf(data, mean)
        excess == At(data, i) * mean.den - mean.num     \* (data[i] - mean) * den
    IN  /\ excess > 0
        /\ excess * excess * variance.den > 4 * variance.num * mean.den * mean.den
        /\ At(data, i) > At(data, i - 1)
        /\ At(data, i) > At(data, i + 1)

\* Math.abs(data[i] - data[i - 1]) > 2 * std
ChangeTest(data, i) ==
    LET variance == VarianceOf(data, MeanOf(data))
        change == At(data, i) - At(data, i - 1)
    IN  change * change * variance.den > 4 * variance.num

SpectralEvent(i, feature, type) == [time |-> i, feature |-> feature, type |-> type]

RECURSIVE FeatureEventsLoop(_, _, _, _)
\* for (let i = 1; i < data.length - 1; i++) of detectSpectralEvents
FeatureEventsLoop(data, feature, i, events) ==
    IF i >= Len(data) - 1 THEN events
    ELSE LET withPeak == IF PeakTest(data, i)
                         THEN Append(events, SpectralEvent(i, feature, "peak"))
                         ELSE events
             withChange == IF ChangeTest(data, i)
                           THEN Append(withPeak, SpectralEvent(i, feature, "change"))
                           ELSE withPeak
         IN  FeatureEventsLoop(data, feature, i + 1, withChange)

RECURSIVE InsertByTime(_, _)
\* Puts e behind the events that are not later than it.
InsertByTime(sorted, e) ==
    IF Len(sorted) = 0 \/ sorted[Len(sorted)].time <= e.time
    THEN Append(sorted, e)
    ELSE Append(InsertByTime(SubSeq(sorted, 1, Len(sorted) - 1), e),
                sorted[Len(sorted)])

RECURSIVE SortByTime(_, _)
\* events.sort((a, b) => a.time - b.time), a stable sort, of the first n events
SortByTime(events, n) ==
    IF n = 0 THEN <<>> ELSE InsertByTime(SortByTime(events, n - 1), events[n])

StatSequences ==
    UNION {[1..n -> 0..MaxStatValue] : n \in 0..MaxStatLen}

\* The sequence with the entries of data in the opposite order.
Reversed(data) == [j \in 1..Len(data) |-> data[Len(data) + 1 - j]]

StatisticsInit ==
    \E data \in StatSequences :
    \E other \in {[j \in 1..Len(data) |-> 0], Reversed(data)} :
        st = [spectralFeatures |-> [centroid |-> data, flux |-> other],
              statistics |-> <<>>, f |-> 1, events |-> <<>>,
              thrown |-> FALSE, pc |-> "statistics"]

\* analyzeSpectral line 51: calculateSpectralStatistics returns.
CalculateSpectralStatistics ==
    /\ st.pc = "statistics"
    /\ Len(st.spectralFeatures.centroid) > 0
    /\ st' = [st EXCEPT
                !.statistics = [k \in 1..Len(StatFeatures) |->
                    FeatureStatistics(st.spectralFeatures[StatFeatures[k]])],
                !.pc = "events"]

\* Line 228 with no frames: reduce of an empty array without initial value.
StatisticsThrows ==
    /\ st.pc = "statistics"
    /\ Len(st.spectralFeatures.centroid) = 0
    /\ st' = [st EXCEPT !.thrown = TRUE, !.pc = "done"]

\* One turn of features.forEach in detectSpectralEvents (lines 246-276).
DetectFeatureEvents ==
    /\ st.pc = "events"
    /\ st.f <= Len(StatFeatures)
    /\ st' = [st EXCEPT
                !.events = FeatureEventsLoop(st.spectralFeatures[StatFeatures[st.f]],
                                             StatFeatures[st.f], 1, @),
                !.f = @ + 1]

\* Line 278.
ReturnSortedEvents ==
    /\ st.pc = "events"
    /\ st.f > Len(StatFeatures)
    /\ st' = [st EXCEPT !.events = SortByTime(@, Len(@)), !.pc = "done"]

InitStatistics ==
    /\ IdleFirst /\ IdleKernels /\ StatisticsInit
    /\ sf = 0 /\ sc = 0

othersStatistics == <<firstVars, kernelVars, sf, sc>>

NextStatistics ==
    \/ CalculateSpectralStatistics /\ UNCHANGED othersStatistics
    \/ StatisticsThrows /\ UNCHANGED othersStatistics
    \/ DetectFeatureEvents /\ UNCHANGED othersStatistics
    \/ ReturnSortedEvents /\ UNCHANGED othersStatistics

SpecStatistics == InitStatistics /\ [][NextStatistics]_vars

Returned == st.pc = "done" /\ ~st.thrown

\* C22 (as stated): the std of every feature in the summary statistics is the
\* population standard deviation of the feature's sequence about its mean.
C22_StdIsPopulationStd ==
    Returned =>
        \A k \in 1..Len(StatFeatures) :
            LET data == st.spectralFeatures[StatFeatures[k]]
                variance == VarianceOf(data, MeanOf(data))
                reported == st.statistics[k].stdSquared
            IN  reported.num * variance.den = variance.num * reported.den

\* The value at frame i is above mean + 2 * std and above each neighbour it has.
StrictPeakAbove(data, i) ==
    LET mean == MeanOf(data)
        variance == VarianceOf(data, mean)
        excess == At(data, i) * mean.den - mean.num
    IN  /\ excess > 0
        /\ excess * excess * variance.den > 4 * variance.num * mean.den * mean.den
        /\ At(data, i) > At(data, i - 1)
        /\ i + 1 < Len(data) => At(data, i) > At(data, i + 1)

EventsOrdered ==
    \A a, b \in 1..Len(st.events) : a < b => st.events[a].time <= st.events[b].time

\* C23 (as stated): for every frame i that has a predecessor, the last one
\* included, an event of a feature at i is reported exactly when the value
\* is a strict local peak above mean + 2 * std or differs from the value at
\* i - 1 by more than 2 * std; the events are in non-decreasing time order.
C23_EventsForEveryFrame ==
    Returned =>
        /\ \A k \in 1..Len(StatFeatures) :
              LET data == st.spectralFeatures[StatFeatures[k]]
              IN  \A i \in 1..(Len(data) - 1) :
                     (\E n \in 1..Len(st.events) :
                          /\ st.events[n].time = i
                          /\ st.events[n].feature = StatFeatures[k])
                     <=> (StrictPeakAbove(data, i) \/ ChangeTest(data, i))
        /\ EventsOrdered

(***************************************************************************)
(* Part 14: the frame loop of analyzeSpectral and                          *)
(*   calculateSpectralFeatures (audio/spectralAnalysis.js)                 *)
(*   A buffer is the sequence of the magnitude spectra of its frames, a    *)
(*   spectrum having SpectrumBins small integer magnitudes.  A feature     *)
(*   value is the rational num/den when the model computes it (frequencies *)
(*   in bins, the flux as its square) and is marked not known otherwise:   *)
(*   bandwidth, flatness, crest, slope, kurtosis and skewness of a frame   *)
(*   that is not silent.                                                   *)
(***************************************************************************)
MaxSpectralFrames == 3      \* frames per buffer
MaxMagnitude == 2           \* largest magnitude of a bin
SpectrumBins == 2           \* bins per spectrum

Known(n, d) == [known |-> TRUE, num |-> n, den |-> d]
NotKnown == [known |-> FALSE, num |-> 0, den |-> 1]

\* let previousSpectrum = null
NullSpectrum == [isNull |-> TRUE, bins |-> <<>>]

\* previousSpectrum = [...spectrum]
CopyOfSpectrum(spectrum) == [isNull |-> FALSE, bins |-> spectrum]

\* spectrum.reduce((sum, mag) => sum + mag * mag, 0)
TotalEnergy(spectrum) ==
    SumOf([j \in 1..Len(spectrum) |-> spectrum[j] * spectrum[j]], Len(spectrum))

\* weightedSum of lines 122-125, frequencies in bins
WeightedSum(spectrum) ==
    SumOf([j \in 1..Len(spectrum) |-> (j - 1) * spectrum[j] * spectrum[j]],
          Len(spectrum))

RECURSIVE SpectralRolloff(_, _, _)
\* The loop of lines 140-146: the first bin at which the energy summed so
\* far reaches 85% of the total, 0 when there is none.
SpectralRolloff(spectrum, i, energySum) ==
    IF i >= Len(spectrum) THEN 0
    ELSE LET sum == energySum + At(spectrum, i) * At(spectrum, i)
         IN  IF 100 * sum >= 85 * TotalEnergy(spectrum) THEN i
             ELSE SpectralRolloff(spectrum, i + 1, sum)

SpectralFlux_NullAsZeros(spectrum, previousSpectrum) ==
    IF previousSpectrum.isNull
    THEN TotalEnergy(spectrum)
    ELSE SumOf([j \in 1..Len(spectrum) |->
                   (spectrum[j] - previousSpectrum.bins[j])
                       * (spectrum[j] - previousSpectrum.bins[j])],
               Len(spectrum))

\* Lines 149-157: fluxSum, the square of features.flux.
SpectralFlux(spectrum, previousSpectrum) ==
    IF previousSpectrum.isNull
    THEN 0
    ELSE SumOf([j \in 1..Len(spectrum) |->
                   (spectrum[j] - previousSpectrum.bins[j])
                       * (spectrum[j] - previousSpectrum.bins[j])],
               Len(spectrum))

\* calculateSpectralFeatures(spectrum, sampleRate, fftSize, previousSpectrum)
calculateSpectralFeatures(spectrum, previousSpectrum) ==
    LET totalEnergy == TotalEnergy(spectrum)
    IN  IF totalEnergy = 0
        THEN [name \in SpectralFeatureNames |-> Known(0, 1)]
        ELSE [name \in SpectralFeatureNames |->
                CASE name = "energy" -> Known(totalEnergy, 1)
                  [] name = "centroid" -> Known(WeightedSum(spectrum), totalEnergy)
                  [] name = "rolloff" -> Known(SpectralRolloff(spectrum, 0, 0), 1)
                  [] name = "flux" ->
                        Known(SpectralFlux(spectrum, previousSpectrum), 1)
                  [] OTHER -> NotKnown]

SpectralBuffers ==
    UNION {[1..n -> [1..SpectrumBins -> 0..MaxMagnitude]] :
           n \in 0..MaxSpectralFrames}

SpectralInit ==
    \E spectra \in SpectralBuffers :
        sf = [spectra |-> spectra, n |-> 0, previousSpectrum |-> NullSpectrum,
              spectralFeatures |-> <<>>, pc |-> "frames"]

\* One iteration of the loop of lines 28-48.
SpectralFrame ==
    /\ sf.pc = "frames"
    /\ sf.n < Len(sf.spectra)
    /\ LET spectrum == At(sf.spectra, sf.n)
       IN  sf' = [sf EXCEPT
                    !.spectralFeatures =
                        Append(@, calculateSpectralFeatures(spectrum,
                                                            sf.previousSpectrum)),
                    !.previousSpectrum = CopyOfSpectrum(spectrum),
                    !.n = @ + 1]

\* The loop ends (line 28).
SpectralLoopExit ==
    /\ sf.pc = "frames"
    /\ sf.n >= Len(sf.spectra)
    /\ sf' = [sf EXCEPT !.pc = "done"]

InitSpectral ==
    /\ IdleFirst /\ IdleKernels /\ SpectralInit
    /\ st = 0 /\ sc = 0

othersSpectral == <<firstVars, kernelVars, st, sc>>

NextSpectral ==
    \/ SpectralFrame /\ UNCHANGED othersSpectral
    \/ SpectralLoopExit /\ UNCHANGED othersSpectral

SpecSpectral == InitSpectral /\ [][NextSpectral]_vars

IsZero(value) == value.known /\ value.num = 0

\* C24: every feature pushed for a frame of total spectral energy 0 is 0,
\* and the flux pushed for the first frame of a buffer is 0.
C24_SilentFrameZeros ==
    /\ \A k \in 1..Len(sf.spectralFeatures) :
          TotalEnergy(sf.spectra[k]) = 0 =>
              \A name \in SpectralFeatureNames :
                  IsZero(sf.spectralFeatures[k][name])
    /\ Len(sf.spectralFeatures) >= 1 => IsZero(sf.spectralFeatures[1].flux)

\* A loud first frame, a silent frame after it, and a frame whose flux is
\* not 0.
C24_Witness ==
    /\ sf.pc = "done"
    /\ Len(sf.spectralFeatures) >= 3
    /\ TotalEnergy(sf.spectra[1]) > 0
    /\ ~IsZero(sf.spectralFeatures[1].energy)
    /\ \E k \in 2..Len(sf.spectralFeatures) : TotalEnergy(sf.spectra[k]) = 0
    /\ \E k \in 2..Len(sf.spectralFeatures) : ~IsZero(sf.spectralFeatures[k].flux)

(***************************************************************************)
(* Part 16: updateMesh of ThreeJSViewer (components/TabNavigation.jsx)     *)
(*   The scene is the set of analysis meshes added to it, a mesh being the *)
(*   number of the createMeshForTab call that made it; meshRef.current is  *)
(*   a mesh or NoMesh.  An invocation of updateMesh runs to its await and  *)
(*   completes when createMeshForTab resolves, which it always does with a *)
(*   mesh (meshGenerator.js returns the fallback box from its catch).      *)
(***************************************************************************)
MaxUpdates == 3     \* invocations of updateMesh

UpdateIds == 1..MaxUpdates

\* The tabs an invocation may have as activeTab.
SceneTabs == {"basic", "chroma"}

\* meshRef.current = null
NoMesh == [id |-> 0, tab |-> "none"]

\* The mesh the n-th resolved createMeshForTab call returns.
MeshOf(n, tabId) == [id |-> n, tab |-> tabId]

SceneInit ==
    sc = [scene |-> {}, meshRef |-> NoMesh, created |-> 0,
          calls |-> [p \in UpdateIds |-> [pc |-> "idle", activeTab |-> "none"]]]

\* Line 84: the effect runs updateMesh while analysisData is null.
UpdateMeshNoData(p) ==
    /\ sc.calls[p].pc = "idle"
    /\ sc' = [sc EXCEPT !.calls[p].pc = "done"]

\* Lines 84-93: the old mesh is removed and createMeshForTab is awaited.
UpdateMeshStart(p, tabId) ==
    /\ sc.calls[p].pc = "idle"
    /\ sc' = [sc EXCEPT !.scene = IF sc.meshRef # NoMesh
                                  THEN @ \ {sc.meshRef} ELSE @,
                        !.meshRef = NoMesh,
                        !.calls[p] = [pc |-> "awaiting", activeTab |-> tabId]]

\* Lines 93-101: createMeshForTab resolves and the mesh is added.
UpdateMeshResolves(p) ==
    /\ sc.calls[p].pc = "awaiting"
    /\ LET mesh == MeshOf(sc.created + 1, sc.calls[p].activeTab)
       IN  sc' = [sc EXCEPT !.created = @ + 1,
                           !.scene = @ \cup {mesh},
                           !.meshRef = mesh,
                           !.calls[p].pc = "done"]

InitScene ==
    /\ IdleFirst /\ IdleKernels /\ SceneInit
    /\ sf = 0 /\ st = 0

othersScene == <<firstVars, kernelVars, sf, st>>

NextScene ==
    \/ \E p \in UpdateIds : UpdateMeshNoData(p) /\ UNCHANGED othersScene
    \/ \E p \in UpdateIds, tabId \in SceneTabs :
          UpdateMeshStart(p, tabId) /\ UNCHANGED othersScene
    \/ \E p \in UpdateIds : UpdateMeshResolves(p) /\ UNCHANGED othersScene

SpecScene == InitScene /\ [][NextScene]_vars

\* C28 (as stated): whatever the interleaving of the updateMesh invocations,
\* the scene holds at most one analysis mesh, and meshRef.current is that
\* mesh.
C28_OneMeshInScene ==
    /\ Cardinality(sc.scene) <= 1
    /\ \A m \in sc.scene : sc.meshRef = m
    /\ sc.meshRef # NoMesh => sc.meshRef \in sc.scene

====
